---- MODULE Spec2Model ----
(***************************************************************************)
(* The ImmutableData coordination engine of the vault: the operation       *)
(* ledger (idata_ops), the chunk metadata store, holder selection, the     *)
(* request admission and response handlers of IDataHandler, and the role   *)
(* state machine of Vault that creates the handler, with the state file    *)
(* and the signature accumulator in front of the handler.                  *)
(***************************************************************************)
EXTENDS Integers, Sequences, FiniteSets, TLC

VARIABLES
    state,       \* Vault::state, the role variant: "Infant", "Adult" or "Elder"
    idata_ops,   \* IDataHandler::idata_ops, BTreeMap<MessageId, IDataOp>
    metadata,    \* IDataHandler::metadata, PickleDb: db key -> ChunkMetadata
    adults,      \* routing: our section's adults
    elders,      \* routing: our section's elders
    panicked,    \* the process hit a failed assert!
    last,        \* the event handled last, its inputs and the actions it emitted
    resp_count,  \* per message-id: client responses emitted by response handling
                 \* since the op now (or last) under that id was inserted
    state_file,  \* the record in the file STATE_FILENAME of the root directory
    accumulator, \* the SignatureAccumulator<(Request, MessageId)> of the role variant
    proofs,      \* per accumulator key: combined proofs handed to the data handler
                 \* since the vault was first started
    running,     \* the event loop of Vault::run has not been left
    pumped       \* the actions given to handle_action for the last event, and the
                 \* follow-ups it returned that were not given to it

vars == <<state, idata_ops, metadata, adults, elders, panicked, last, resp_count,
          state_file, accumulator, proofs, running, pumped>>

----------------------------------------------------------------------------
(* Bounds of the model *)

NumAdults == 1
NumElders == 1
MaxMsgId == 1
MaxSelectAdults == 4
MaxShares == 2
MaxOwnerMsgId == 2

(* Program constants *)

IMMUTABLE_DATA_COPY_COUNT == 3

----------------------------------------------------------------------------
(* Values *)

None == "None"

AdultNames == 1..NumAdults
ElderNames == (NumAdults + 1)..(NumAdults + NumElders)
Nodes == AdultNames \cup ElderNames
MsgIds == 1..MaxMsgId

\* PublicId: a Client or an App with its own public key, or a Node.
ClientId(k) == [kind |-> "Client", key |-> k]
AppId(k) == [kind |-> "App", key |-> k]
NodeId == [kind |-> "Node", key |-> None]
NoId == [kind |-> None, key |-> None]
PublicIds == {ClientId("k1"), AppId("k2"), NodeId}

\* IDataAddress: an XOR name and the Published / Unpublished tag.
ChunkNames == {1}
PubAddr(n) == [name |-> n, kind |-> "Published"]
UnpubAddr(n) == [name |-> n, kind |-> "Unpublished"]
NoAddr == [name |-> 0, kind |-> None]
Addrs == {PubAddr(n) : n \in ChunkNames} \cup {UnpubAddr(n) : n \in ChunkNames}

\* NdResult: "Ok" or the error.
Ok == "Ok"
HolderErrors == {"NetworkOther"}
HolderResults == {Ok} \cup HolderErrors
is_err(result) == result # Ok
err(result) == IF is_err(result) THEN result ELSE None

COST_OF_PUT == "COST_OF_PUT"

\* RpcState
Sent == [tag |-> "Sent", error |-> None]
Actioned(e) == [tag |-> "Actioned", error |-> e]

\* IDataRequest
PutRequest(a) == [type |-> "Put", address |-> a]
GetRequest(a) == [type |-> "Get", address |-> a]
DeleteUnpubRequest(a) == [type |-> "DeleteUnpub", address |-> a]

\* Response
Mutation(result) == [type |-> "Mutation", result |-> result]
GetIData(result) == [type |-> "GetIData", result |-> result]
ResponseTypes == {"Mutation", "GetIData"}

\* Option<Action>: the empty set is None, a singleton is Some(action).
NoAction == {}
Some(a) == {a}

RespondToClientHandlers(sender, requester, response, message_id, refund) ==
    [action |-> "RespondToClientHandlers", sender |-> sender, requester |-> requester,
     response |-> response, message_id |-> message_id, refund |-> refund,
     targets |-> {}, request |-> None]

RespondToOurDataHandlers(sender, requester, response, message_id, refund) ==
    [action |-> "RespondToOurDataHandlers", sender |-> sender, requester |-> requester,
     response |-> response, message_id |-> message_id, refund |-> refund,
     targets |-> {}, request |-> None]

SendToPeers(sender, targets, request, requester, message_id) ==
    [action |-> "SendToPeers", sender |-> sender, requester |-> requester,
     response |-> Mutation(None), message_id |-> message_id, refund |-> None,
     targets |-> targets, request |-> request.type]

----------------------------------------------------------------------------
(* utils.rs *)

own_key(public_id) == IF public_id.kind = "Node" THEN None ELSE public_id.key

\* As get_refund_for_put, with the test of the result inverted.
get_refund_for_put_on_ok(result) == IF is_err(result) THEN None ELSE COST_OF_PUT

get_refund_for_put(result) == IF is_err(result) THEN COST_OF_PUT ELSE None

\* to_db_key: the serialised address (variant index, then the name).
to_db_key(address) == <<IF address.kind = "Published" THEN 0 ELSE 1, address.name>>

\* As db_key_to_idata_address, with the Published / Unpublished tag of the key lost.
db_key_to_idata_address_untagged(key) == [name |-> key[2], kind |-> "Published"]

db_key_to_idata_address(key) ==
    [name |-> key[2], kind |-> IF key[1] = 0 THEN "Published" ELSE "Unpublished"]

----------------------------------------------------------------------------
(* idata_op.rs *)

IDataOp_new(client, request, holders) ==
    [client |-> client, request |-> request, rpc_states |-> [h \in holders |-> Sent]]

is_any_actioned(op) ==
    \E h \in DOMAIN op.rpc_states : op.rpc_states[h].tag = "Actioned"

op_type(op) ==
    CASE op.request.type = "Put" -> "Put"
      [] op.request.type = "Get" -> "Get"
      [] op.request.type = "DeleteUnpub" -> "Delete"

\* As concluded, taking the op as concluded as soon as one holder has answered.
concluded_on_first_answer(op) == is_any_actioned(op)

concluded(op) == ~ \E h \in DOMAIN op.rpc_states : op.rpc_states[h] = Sent

get_any_errors(op) ==
    LET senders == {h \in DOMAIN op.rpc_states :
                        /\ op.rpc_states[h].tag = "Actioned"
                        /\ op.rpc_states[h].error # None}
    IN  [h \in senders |-> op.rpc_states[h].error]

\* set_to_actioned returns None when the sender has no entry in rpc_states.
set_to_actioned_ok(op, sender) == sender \in DOMAIN op.rpc_states

\* As set_to_actioned, marking every other holder as Sent again.
set_to_actioned_resends_others(op, sender, got_error_response) ==
    [op EXCEPT !.rpc_states = [h \in DOMAIN op.rpc_states |->
                                  IF h = sender THEN Actioned(got_error_response) ELSE Sent]]

set_to_actioned(op, sender, got_error_response) ==
    [op EXCEPT !.rpc_states[sender] = Actioned(got_error_response)]

----------------------------------------------------------------------------
(* The key-value store and the ledger as maps *)

MapSet(map, k, v) == [x \in DOMAIN map \cup {k} |-> IF x = k THEN v ELSE map[x]]
MapRem(map, k) == [x \in DOMAIN map \ {k} |-> map[x]]
EmptyMap == [x \in {} |-> None]

ChunkMetadata(holders, owner) == [holders |-> holders, owner |-> owner]
DefaultChunkMetadata == ChunkMetadata({}, None)

\* The state of an IDataHandler (self) and what a handler returns.
Handler(ops, meta) == [idata_ops |-> ops, metadata |-> meta]
Ret(self, action) == [self |-> self, action |-> action, panic |-> FALSE]
Panic(self) == [self |-> self, action |-> NoAction, panic |-> TRUE]

Min(a, b) == IF a < b THEN a ELSE b
Range(seq) == {seq[i] : i \in DOMAIN seq}
Take(seq, n) == SubSeq(seq, 1, Min(n, Len(seq)))

----------------------------------------------------------------------------
(* Routing (external): the membership the handler reads *)

RECURSIVE Xor(_, _)
Xor(a, b) ==
    IF a = 0 THEN b
    ELSE IF b = 0 THEN a
    ELSE (((a % 2) + (b % 2)) % 2) + (2 * Xor(a \div 2, b \div 2))

RECURSIVE SortedByDistance(_, _)
SortedByDistance(names, target) ==
    IF names = {} THEN <<>>
    ELSE LET closest == CHOOSE x \in names :
                            \A y \in names : Xor(x, target) <= Xor(y, target)
         IN  <<closest>> \o SortedByDistance(names \ {closest}, target)

our_adults_sorted_by_distance_to(target) == SortedByDistance(adults, target)
closest_known_elders_to(target) == SortedByDistance(elders, target)

\* The name of this node; it is not one of the holders of the model.
OurName == NumAdults + NumElders + 1
OurId == NodeId

----------------------------------------------------------------------------
(* idata_handler.rs *)

make_holder_list_for_idata(target) ==
    LET closest_adults == our_adults_sorted_by_distance_to(target)
    IN  IF Len(closest_adults) < IMMUTABLE_DATA_COPY_COUNT
        THEN closest_adults \o
             Take(closest_known_elders_to(target),
                  IMMUTABLE_DATA_COPY_COUNT - Len(closest_adults))
        ELSE closest_adults

\* As get_metadata_for, with unwrap_or_default in place of the NoSuchData error for a
\* record that is absent.
get_metadata_for_or_default(self, address) ==
    IF to_db_key(address) \in DOMAIN self.metadata
    THEN LET meta == self.metadata[to_db_key(address)]
         IN  IF meta.holders = {}
             THEN [ok |-> FALSE, error |-> "NoSuchData", metadata |-> DefaultChunkMetadata]
             ELSE [ok |-> TRUE, error |-> None, metadata |-> meta]
    ELSE [ok |-> TRUE, error |-> None, metadata |-> DefaultChunkMetadata]

get_metadata_for(self, address) ==
    IF to_db_key(address) \in DOMAIN self.metadata
    THEN LET meta == self.metadata[to_db_key(address)]
         IN  IF meta.holders = {}
             THEN [ok |-> FALSE, error |-> "NoSuchData", metadata |-> DefaultChunkMetadata]
             ELSE [ok |-> TRUE, error |-> None, metadata |-> meta]
    ELSE [ok |-> FALSE, error |-> "NoSuchData", metadata |-> DefaultChunkMetadata]

\* As handle_put_idata_req, with DataExists for every chunk that has a record, a
\* Published one included.
handle_put_idata_req_data_exists(self, requester, data, message_id) ==
    LET respond(result) ==
            Some(RespondToClientHandlers(OurName, requester, Mutation(result),
                                         message_id, get_refund_for_put(result)))
        target_holders == Range(make_holder_list_for_idata(data.name))
        idata_op == IDataOp_new(requester, PutRequest(data), target_holders)
    IN  IF to_db_key(data) \in DOMAIN self.metadata
        THEN Ret(self, respond("DataExists"))
        ELSE IF message_id \in DOMAIN self.idata_ops
             THEN Ret(self, respond("DuplicateMessageId"))
             ELSE Ret(Handler(MapSet(self.idata_ops, message_id, idata_op), self.metadata),
                      Some(SendToPeers(OurName, target_holders, idata_op.request, OurId, message_id)))

handle_put_idata_req(self, requester, data, message_id) ==
    LET respond(result) ==
            Some(RespondToClientHandlers(OurName, requester, Mutation(result),
                                         message_id, get_refund_for_put(result)))
        target_holders == Range(make_holder_list_for_idata(data.name))
        idata_op == IDataOp_new(requester, PutRequest(data), target_holders)
    IN  IF to_db_key(data) \in DOMAIN self.metadata
        THEN IF data.kind = "Published"
             THEN Ret(self, respond(Ok))
             ELSE Ret(self, respond("DataExists"))
        ELSE IF message_id \in DOMAIN self.idata_ops
             THEN Ret(self, respond("DuplicateMessageId"))
             ELSE Ret(Handler(MapSet(self.idata_ops, message_id, idata_op), self.metadata),
                      Some(SendToPeers(OurName, target_holders, idata_op.request, OurId, message_id)))

\* As handle_delete_unpub_idata_req, without the comparison of the requester's key
\* with the owner.
handle_delete_unpub_idata_req_no_owner_check(self, requester, address, message_id) ==
    LET respond(result) ==
            Some(RespondToClientHandlers(OurName, requester, Mutation(result),
                                         message_id, None))
        got == get_metadata_for(self, address)
        meta == got.metadata
        idata_op == IDataOp_new(requester, DeleteUnpubRequest(address), meta.holders)
    IN  IF ~got.ok THEN Ret(self, respond(got.error))
        ELSE IF meta.owner # None /\ own_key(requester) = None THEN Ret(self, NoAction)
        ELSE IF message_id \in DOMAIN self.idata_ops
             THEN Ret(self, respond("DuplicateMessageId"))
             ELSE Ret(Handler(MapSet(self.idata_ops, message_id, idata_op), self.metadata),
                      Some(SendToPeers(OurName, meta.holders, idata_op.request, OurId, message_id)))

handle_delete_unpub_idata_req(self, requester, address, message_id) ==
    LET respond(result) ==
            Some(RespondToClientHandlers(OurName, requester, Mutation(result),
                                         message_id, None))
        got == get_metadata_for(self, address)
        meta == got.metadata
        idata_op == IDataOp_new(requester, DeleteUnpubRequest(address), meta.holders)
    IN  IF ~got.ok THEN Ret(self, respond(got.error))
        ELSE IF meta.owner # None /\ own_key(requester) = None THEN Ret(self, NoAction)
        ELSE IF meta.owner # None /\ meta.owner # own_key(requester)
             THEN Ret(self, respond("AccessDenied"))
        ELSE IF message_id \in DOMAIN self.idata_ops
             THEN Ret(self, respond("DuplicateMessageId"))
             ELSE Ret(Handler(MapSet(self.idata_ops, message_id, idata_op), self.metadata),
                      Some(SendToPeers(OurName, meta.holders, idata_op.request, OurId, message_id)))

\* As get_idata_copy, with the op inserted over the entry that is occupied.
get_idata_copy_insert_over(self, requester, address, holders, message_id) ==
    LET respond(result) ==
            Some(RespondToOurDataHandlers(OurName, requester, GetIData(result),
                                          message_id, None))
        idata_op == IDataOp_new(requester, GetRequest(address), holders)
    IN  IF message_id \in DOMAIN self.idata_ops
        THEN Ret(Handler(MapSet(self.idata_ops, message_id, idata_op), self.metadata),
                 respond("DuplicateMessageId"))
        ELSE Ret(Handler(MapSet(self.idata_ops, message_id, idata_op), self.metadata),
                 Some(SendToPeers(OurName, holders, idata_op.request, OurId, message_id)))

get_idata_copy(self, requester, address, holders, message_id) ==
    LET respond(result) ==
            Some(RespondToOurDataHandlers(OurName, requester, GetIData(result),
                                          message_id, None))
        idata_op == IDataOp_new(requester, GetRequest(address), holders)
    IN  IF message_id \in DOMAIN self.idata_ops
        THEN Ret(self, respond("DuplicateMessageId"))
        ELSE Ret(Handler(MapSet(self.idata_ops, message_id, idata_op), self.metadata),
                 Some(SendToPeers(OurName, holders, idata_op.request, OurId, message_id)))

\* As handle_get_idata_req, with the op inserted over the entry that is occupied.
handle_get_idata_req_insert_over(self, requester, address, message_id) ==
    LET respond(result) ==
            Some(RespondToClientHandlers(OurName, requester, GetIData(result),
                                         message_id, None))
        got == get_metadata_for(self, address)
        meta == got.metadata
        idata_op == IDataOp_new(requester, GetRequest(address), meta.holders)
    IN  IF ~got.ok THEN Ret(self, respond(got.error))
        ELSE IF meta.owner # None /\ own_key(requester) = None THEN Ret(self, NoAction)
        ELSE IF meta.owner # None /\ meta.owner # own_key(requester)
             THEN Ret(self, respond("AccessDenied"))
        ELSE IF message_id \in DOMAIN self.idata_ops
             THEN Ret(Handler(MapSet(self.idata_ops, message_id, idata_op), self.metadata),
                      respond("DuplicateMessageId"))
             ELSE Ret(Handler(MapSet(self.idata_ops, message_id, idata_op), self.metadata),
                      Some(SendToPeers(OurName, meta.holders, idata_op.request, OurId, message_id)))

\* As handle_get_idata_req, with the targets selected anew from the section in place
\* of the holders of the record.
handle_get_idata_req_selects_holders(self, requester, address, message_id) ==
    LET respond(result) ==
            Some(RespondToClientHandlers(OurName, requester, GetIData(result),
                                         message_id, None))
        got == get_metadata_for(self, address)
        meta == got.metadata
        target_holders == Range(make_holder_list_for_idata(address.name))
        idata_op == IDataOp_new(requester, GetRequest(address), target_holders)
    IN  IF ~got.ok THEN Ret(self, respond(got.error))
        ELSE IF meta.owner # None /\ own_key(requester) = None THEN Ret(self, NoAction)
        ELSE IF meta.owner # None /\ meta.owner # own_key(requester)
             THEN Ret(self, respond("AccessDenied"))
        ELSE IF message_id \in DOMAIN self.idata_ops
             THEN Ret(self, respond("DuplicateMessageId"))
             ELSE Ret(Handler(MapSet(self.idata_ops, message_id, idata_op), self.metadata),
                      Some(SendToPeers(OurName, target_holders, idata_op.request, OurId, message_id)))

handle_get_idata_req(self, requester, address, message_id) ==
    LET respond(result) ==
            Some(RespondToClientHandlers(OurName, requester, GetIData(result),
                                         message_id, None))
        got == get_metadata_for(self, address)
        meta == got.metadata
        idata_op == IDataOp_new(requester, GetRequest(address), meta.holders)
    IN  IF ~got.ok THEN Ret(self, respond(got.error))
        ELSE IF meta.owner # None /\ own_key(requester) = None THEN Ret(self, NoAction)
        ELSE IF meta.owner # None /\ meta.owner # own_key(requester)
             THEN Ret(self, respond("AccessDenied"))
        ELSE IF message_id \in DOMAIN self.idata_ops
             THEN Ret(self, respond("DuplicateMessageId"))
             ELSE Ret(Handler(MapSet(self.idata_ops, message_id, idata_op), self.metadata),
                      Some(SendToPeers(OurName, meta.holders, idata_op.request, OurId, message_id)))

(* idata_op.rs: the response handlers of an op; they return the op as it is
   left and the action, if any. *)

IDataOp_handle_mutation_resp(op, sender, result) ==
    IF op.request.type = "Get"
    THEN [some |-> FALSE, op |-> op, address |-> NoAddr]
    ELSE IF ~set_to_actioned_ok(op, sender)
    THEN [some |-> FALSE, op |-> op, address |-> NoAddr]
    ELSE [some |-> TRUE, op |-> set_to_actioned(op, sender, err(result)),
          address |-> op.request.address]

IDataOp_handle_get_copy_idata_resp(op, sender, result, message_id) ==
    LET is_already_actioned == is_any_actioned(op)
    IN  IF op.request.type # "Get" THEN [op |-> op, action |-> NoAction]
        ELSE IF ~set_to_actioned_ok(op, sender) THEN [op |-> op, action |-> NoAction]
        ELSE [op |-> set_to_actioned(op, sender, err(result)),
              action |-> IF is_already_actioned
                         THEN NoAction
                         ELSE Some(RespondToOurDataHandlers(op.request.address.name,
                                       op.client, GetIData(result), message_id, None))]

\* As IDataOp_handle_get_idata_resp, without the is_already_actioned test: every
\* recorded response is passed on.
IDataOp_handle_get_idata_resp_every_response(op, sender, result, message_id) ==
    IF op.request.type # "Get" THEN [op |-> op, action |-> NoAction]
    ELSE IF ~set_to_actioned_ok(op, sender) THEN [op |-> op, action |-> NoAction]
    ELSE [op |-> set_to_actioned(op, sender, err(result)),
          action |-> Some(RespondToClientHandlers(op.request.address.name,
                              op.client, GetIData(result), message_id, None))]

IDataOp_handle_get_idata_resp(op, sender, result, message_id) ==
    LET is_already_actioned == is_any_actioned(op)
    IN  IF op.request.type # "Get" THEN [op |-> op, action |-> NoAction]
        ELSE IF ~set_to_actioned_ok(op, sender) THEN [op |-> op, action |-> NoAction]
        ELSE [op |-> set_to_actioned(op, sender, err(result)),
              action |-> IF is_already_actioned
                         THEN NoAction
                         ELSE Some(RespondToClientHandlers(op.request.address.name,
                                       op.client, GetIData(result), message_id, None))]

----------------------------------------------------------------------------
(* idata_handler.rs: response handling *)

\* Removes and returns the op if it has concluded.
remove_idata_op_if_concluded(self, message_id) ==
    LET is_concluded == /\ message_id \in DOMAIN self.idata_ops
                        /\ concluded(self.idata_ops[message_id])
    IN  IF is_concluded
        THEN [self |-> Handler(MapRem(self.idata_ops, message_id), self.metadata),
              some |-> TRUE, op |-> self.idata_ops[message_id]]
        ELSE [self |-> self, some |-> FALSE,
              op |-> IDataOp_new(NoId, GetRequest(NoAddr), {})]

handle_put_idata_resp(self, idata_address, sender, result, message_id) ==
    LET db_key == to_db_key(idata_address)
        stored == IF db_key \in DOMAIN self.metadata
                  THEN self.metadata[db_key]
                  ELSE DefaultChunkMetadata
        has_op == message_id \in DOMAIN self.idata_ops
        \* Some(utils::own_key(idataops.client())?)
        idata_owner == IF has_op THEN own_key(self.idata_ops[message_id].client) ELSE None
        updated == ChunkMetadata(stored.holders \cup {sender},
                                 IF idata_owner # None THEN idata_owner ELSE stored.owner)
        written == Handler(self.idata_ops, MapSet(self.metadata, db_key, updated))
        removed == remove_idata_op_if_concluded(written, message_id)
    IN  IF has_op /\ idata_owner = None THEN Ret(self, NoAction)
        ELSE IF sender \in stored.holders /\ ~has_op THEN Ret(self, NoAction)
        ELSE IF removed.some
        THEN Ret(removed.self,
                 Some(RespondToClientHandlers(idata_address.name, removed.op.client,
                                              Mutation(Ok), message_id, None)))
        ELSE Ret(removed.self, NoAction)

\* As handle_delete_unpub_idata_resp, with the record always written back, also when
\* its holders have become empty.
handle_delete_unpub_idata_resp_keeps_record(self, idata_address, sender, result, message_id) ==
    LET db_key == to_db_key(idata_address)
        has_meta == db_key \in DOMAIN self.metadata
        stored == IF has_meta THEN self.metadata[db_key] ELSE DefaultChunkMetadata
        remaining == stored.holders \ {sender}
        has_op == message_id \in DOMAIN self.idata_ops
        written == IF is_err(result) \/ ~has_meta
                   THEN self
                   ELSE Handler(self.idata_ops,
                                MapSet(self.metadata, db_key,
                                       ChunkMetadata(remaining, stored.owner)))
        removed == remove_idata_op_if_concluded(written, message_id)
        errors_for_req == get_any_errors(removed.op)
        first == CHOOSE h \in DOMAIN errors_for_req :
                     \A g \in DOMAIN errors_for_req : h <= g
        response == IF DOMAIN errors_for_req # {} THEN errors_for_req[first] ELSE Ok
    IN  IF ~is_err(result) /\ has_meta /\ sender \notin stored.holders /\ ~has_op
        THEN Ret(self, NoAction)
        ELSE IF ~removed.some THEN Ret(removed.self, NoAction)
        ELSE IF Cardinality(DOMAIN errors_for_req) > 1 THEN Panic(removed.self)
        ELSE Ret(removed.self,
                 Some(RespondToClientHandlers(idata_address.name, removed.op.client,
                                              Mutation(response), message_id, None)))

\* As handle_delete_unpub_idata_resp, with the sender taken out of the holders for
\* an error response too.
handle_delete_unpub_idata_resp_on_error_too(self, idata_address, sender, result, message_id) ==
    LET db_key == to_db_key(idata_address)
        has_meta == db_key \in DOMAIN self.metadata
        stored == IF has_meta THEN self.metadata[db_key] ELSE DefaultChunkMetadata
        remaining == stored.holders \ {sender}
        has_op == message_id \in DOMAIN self.idata_ops
        written == IF ~has_meta
                   THEN self
                   ELSE IF remaining = {}
                   THEN Handler(self.idata_ops, MapRem(self.metadata, db_key))
                   ELSE Handler(self.idata_ops,
                                MapSet(self.metadata, db_key,
                                       ChunkMetadata(remaining, stored.owner)))
        removed == remove_idata_op_if_concluded(written, message_id)
        errors_for_req == get_any_errors(removed.op)
        first == CHOOSE h \in DOMAIN errors_for_req :
                     \A g \in DOMAIN errors_for_req : h <= g
        response == IF DOMAIN errors_for_req # {} THEN errors_for_req[first] ELSE Ok
    IN  IF has_meta /\ sender \notin stored.holders /\ ~has_op
        THEN Ret(self, NoAction)
        ELSE IF ~removed.some THEN Ret(removed.self, NoAction)
        ELSE IF Cardinality(DOMAIN errors_for_req) > 1 THEN Panic(removed.self)
        ELSE Ret(removed.self,
                 Some(RespondToClientHandlers(idata_address.name, removed.op.client,
                                              Mutation(response), message_id, None)))

handle_delete_unpub_idata_resp(self, idata_address, sender, result, message_id) ==
    LET db_key == to_db_key(idata_address)
        has_meta == db_key \in DOMAIN self.metadata
        stored == IF has_meta THEN self.metadata[db_key] ELSE DefaultChunkMetadata
        remaining == stored.holders \ {sender}
        has_op == message_id \in DOMAIN self.idata_ops
        written == IF is_err(result) \/ ~has_meta
                   THEN self
                   ELSE IF remaining = {}
                   THEN Handler(self.idata_ops, MapRem(self.metadata, db_key))
                   ELSE Handler(self.idata_ops,
                                MapSet(self.metadata, db_key,
                                       ChunkMetadata(remaining, stored.owner)))
        removed == remove_idata_op_if_concluded(written, message_id)
        errors_for_req == get_any_errors(removed.op)
        first == CHOOSE h \in DOMAIN errors_for_req :
                     \A g \in DOMAIN errors_for_req : h <= g
        response == IF DOMAIN errors_for_req # {} THEN errors_for_req[first] ELSE Ok
    IN  IF ~is_err(result) /\ has_meta /\ sender \notin stored.holders /\ ~has_op
        THEN Ret(self, NoAction)
        ELSE IF ~removed.some THEN Ret(removed.self, NoAction)
        ELSE IF Cardinality(DOMAIN errors_for_req) > 1 THEN Panic(removed.self)
        ELSE Ret(removed.self,
                 Some(RespondToClientHandlers(idata_address.name, removed.op.client,
                                              Mutation(response), message_id, None)))

handle_mutation_resp(self, sender, result, message_id) ==
    IF message_id \notin DOMAIN self.idata_ops THEN Ret(self, NoAction)
    ELSE LET idata_op == self.idata_ops[message_id]
             got == IDataOp_handle_mutation_resp(idata_op, sender, result)
             recorded == Handler(MapSet(self.idata_ops, message_id, got.op), self.metadata)
         IN  IF ~got.some THEN Ret(self, NoAction)
             ELSE IF op_type(idata_op) = "Put"
             THEN handle_put_idata_resp(recorded, got.address, sender, result, message_id)
             ELSE handle_delete_unpub_idata_resp(recorded, got.address, sender, result,
                                                 message_id)

\* As handle_get_idata_resp, without the removal of the op that has concluded.
handle_get_idata_resp_keeps_op(self, sender, result, message_id) ==
    IF message_id \notin DOMAIN self.idata_ops THEN Ret(self, NoAction)
    ELSE LET got == IDataOp_handle_get_idata_resp(self.idata_ops[message_id], sender,
                                                  result, message_id)
             recorded == Handler(MapSet(self.idata_ops, message_id, got.op), self.metadata)
         IN  Ret(recorded, got.action)

handle_get_idata_resp(self, sender, result, message_id) ==
    IF message_id \notin DOMAIN self.idata_ops THEN Ret(self, NoAction)
    ELSE LET got == IDataOp_handle_get_idata_resp(self.idata_ops[message_id], sender,
                                                  result, message_id)
             recorded == Handler(MapSet(self.idata_ops, message_id, got.op), self.metadata)
         IN  Ret(remove_idata_op_if_concluded(recorded, message_id).self, got.action)

\* The response to a duplication GET goes back to the requesting data handler.
handle_get_copy_idata_resp(self, sender, result, message_id) ==
    IF message_id \notin DOMAIN self.idata_ops THEN Ret(self, NoAction)
    ELSE LET got == IDataOp_handle_get_copy_idata_resp(self.idata_ops[message_id], sender,
                                                       result, message_id)
             recorded == Handler(MapSet(self.idata_ops, message_id, got.op), self.metadata)
         IN  Ret(remove_idata_op_if_concluded(recorded, message_id).self, got.action)

----------------------------------------------------------------------------
(* idata_handler.rs: a holder has left *)

get_metadata_for_all_chunks(self, holder) ==
    LET listed == {k \in DOMAIN self.metadata : holder \in self.metadata[k].holders}
        \* first loop: the addresses decoded from the keys, with the other holders
        idata_addresses ==
            [a \in {db_key_to_idata_address(k) : k \in listed} |->
                LET k == CHOOSE x \in listed : db_key_to_idata_address(x) = a
                IN  self.metadata[k].holders \ {holder}]
        \* second loop: the records found again under the addresses' keys
        touched == {to_db_key(a) : a \in DOMAIN idata_addresses} \cap DOMAIN self.metadata
        emptied == {k \in touched : self.metadata[k].holders \ {holder} = {}}
        updated == [k \in DOMAIN self.metadata \ emptied |->
                       IF k \in touched
                       THEN ChunkMetadata(self.metadata[k].holders \ {holder},
                                          self.metadata[k].owner)
                       ELSE self.metadata[k]]
    IN  [self |-> Handler(self.idata_ops, updated), addresses |-> idata_addresses]

check_idata_holders(self, holder) == get_metadata_for_all_chunks(self, holder)

----------------------------------------------------------------------------
(* The data handler around IDataHandler: construction and dispatch *)

\* utils::new_db: Init::New creates an empty database over the file.
new_db(init_mode, on_disk) == IF init_mode = "New" THEN EmptyMap ELSE on_disk

IDataHandler_new(init_mode, on_disk) == Handler(EmptyMap, new_db(init_mode, on_disk))

\* A GetIData response: to the client handlers for a client's GET, to our data
\* handlers for a duplication GET (an op whose requester is a node).
dispatch_get_idata_resp(self, sender, result, message_id) ==
    IF /\ message_id \in DOMAIN self.idata_ops
       /\ self.idata_ops[message_id].client.kind = "Node"
    THEN handle_get_copy_idata_resp(self, sender, result, message_id)
    ELSE handle_get_idata_resp(self, sender, result, message_id)

handle_response(self, sender, response, message_id) ==
    IF response.type = "Mutation"
    THEN handle_mutation_resp(self, sender, response.result, message_id)
    ELSE dispatch_get_idata_resp(self, sender, response.result, message_id)

\* One duplication GET per address that still has a holder; ids gives the
\* message-id used for each address.
RECURSIVE copy_chunks(_, _, _, _)
copy_chunks(self, addresses, todo, ids) ==
    IF todo = {} THEN [self |-> self, actions |-> {}]
    ELSE LET address == CHOOSE a \in todo : \A b \in todo : to_db_key(a)[1] <= to_db_key(b)[1]
             copied == get_idata_copy(self, OurId, address, addresses[address], ids[address])
             rest == copy_chunks(copied.self, addresses, todo \ {address}, ids)
         IN  [self |-> rest.self, actions |-> copied.action \cup rest.actions]

trigger_chunk_duplication(self, node, ids) ==
    LET checked == check_idata_holders(self, node)
        todo == {a \in DOMAIN checked.addresses : checked.addresses[a] # {}}
    IN  copy_chunks(checked.self, checked.addresses, todo, ids)

----------------------------------------------------------------------------
(* vault.rs: the roles, the state file, the accumulator and routing messages *)

\* routing::ProofShare: the signer's index and whether the share verifies against
\* its public-key set; NoShare is proof: None.
ShareIndices == 1..MaxShares
ProofShares == [index : ShareIndices, valid : BOOLEAN]
NoShare == [index |-> 0, valid |-> FALSE]

\* A combined proof takes more than Threshold shares: here every signer's.
Threshold == MaxShares - 1

\* The accumulator's key: (Request, MessageId).
Key(request, message_id) == [request |-> request, message_id |-> message_id]
Keys == {Key(request, message_id) :
            request \in {PutRequest(a) : a \in Addrs} \cup {GetRequest(a) : a \in Addrs}
                        \cup {DeleteUnpubRequest(a) : a \in Addrs},
            message_id \in MsgIds}

\* SignatureAccumulator: the shares collected per key and the keys that have
\* yielded their proof.
SignatureAccumulator_new == [shares |-> [k \in {} |-> {}], accumulated |-> {}]

SignatureAccumulator_add(acc, key, share) ==
    IF key \in acc.accumulated
    THEN [acc |-> acc, result |-> "AlreadyAccumulated"]
    ELSE IF ~share.valid
    THEN [acc |-> acc, result |-> "InvalidShare"]
    ELSE LET had == IF key \in DOMAIN acc.shares THEN acc.shares[key] ELSE {}
             have == had \cup {share.index}
         IN  IF Cardinality(have) > Threshold
             THEN [acc |-> [shares |-> MapRem(acc.shares, key),
                            accumulated |-> acc.accumulated \cup {key}],
                   result |-> Ok]
             ELSE [acc |-> [shares |-> MapSet(acc.shares, key, have),
                            accumulated |-> acc.accumulated],
                   result |-> "NotEnoughShares"]

\* Rpc, as it comes off the wire.
RpcRequest(request, requester, message_id, proof) ==
    [rpc |-> "Request", type |-> request.type, address |-> request.address,
     requester |-> requester, message_id |-> message_id, proof |-> proof,
     response |-> Mutation(None)]
RpcResponse(response, message_id) ==
    [rpc |-> "Response", type |-> None, address |-> NoAddr, requester |-> NoId,
     message_id |-> message_id, proof |-> NoShare, response |-> response]
RpcDuplicate(address, message_id, proof) ==
    [rpc |-> "Duplicate", type |-> None, address |-> address, requester |-> NoId,
     message_id |-> message_id, proof |-> proof, response |-> Mutation(None)]
RpcDuplicationComplete(message_id) ==
    [rpc |-> "DuplicationComplete", type |-> None, address |-> NoAddr, requester |-> NoId,
     message_id |-> message_id, proof |-> NoShare, response |-> Mutation(None)]
\* Bytes that bincode does not deserialize into an Rpc.
RpcUndecodable ==
    [rpc |-> "Undecodable", type |-> None, address |-> NoAddr, requester |-> NoId,
     message_id |-> 0, proof |-> NoShare, response |-> Mutation(None)]

\* Request::IData(_), as against the requests of the other data types.
IDataRequestTypes == {"Put", "Get", "DeleteUnpub"}

\* The vault's state: the role variant with the handler and the accumulator it
\* holds (both absent in an Infant), and what a step of the vault returns.
VaultState(role, data_handler, acc) ==
    [state |-> role, data_handler |-> data_handler, accumulator |-> acc]
Routed(vault, action, panic, accumulation, delivered) ==
    [vault |-> vault, action |-> action, panic |-> panic,
     accumulation |-> accumulation, delivered |-> delivered]
NotRouted(vault) == Routed(vault, NoAction, FALSE, None, FALSE)
\* unimplemented!("Should not receive: ..."): the thread panics.
Unimplemented(vault) == Routed(vault, NoAction, TRUE, None, FALSE)

\* ok: DataHandler::new (and ClientHandler::new) returned Ok.
promote_to_adult(vault, ok) ==
    IF ok
    THEN VaultState("Adult", IDataHandler_new("New", vault.data_handler.metadata),
                    SignatureAccumulator_new)
    ELSE vault

\* As promote_to_elder, with the role variant given up before the handlers are
\* made: a failure leaves an Infant.
promote_to_elder_from_nothing(vault, ok) ==
    IF ok
    THEN VaultState("Elder", IDataHandler_new("New", vault.data_handler.metadata),
                    SignatureAccumulator_new)
    ELSE VaultState("Infant", Handler(EmptyMap, vault.data_handler.metadata),
                    SignatureAccumulator_new)

promote_to_elder(vault, ok) ==
    IF ok
    THEN VaultState("Elder", IDataHandler_new("New", vault.data_handler.metadata),
                    SignatureAccumulator_new)
    ELSE vault

\* The state file: (is_elder, id).
dump_state(role) == [is_elder |-> role = "Elder"]

\* Vault::new over a root directory that has a state file: Init::Load.
Vault_new(file, on_disk) ==
    IF file.is_elder
    THEN VaultState("Elder", IDataHandler_new("Load", on_disk), SignatureAccumulator_new)
    ELSE VaultState("Infant", Handler(EmptyMap, on_disk), SignatureAccumulator_new)

\* DataHandler::handle_vault_rpc: the request handlers and the response handlers of
\* IDataHandler; the chunk a Duplicate carries and a DuplicationComplete go to the
\* chunk holder, which is not part of this model.
handle_vault_rpc(self, src, rpc) ==
    CASE rpc.rpc = "Request" /\ rpc.type = "Put" ->
             handle_put_idata_req(self, rpc.requester, rpc.address, rpc.message_id)
      [] rpc.rpc = "Request" /\ rpc.type = "Get" ->
             handle_get_idata_req(self, rpc.requester, rpc.address, rpc.message_id)
      [] rpc.rpc = "Request" /\ rpc.type = "DeleteUnpub" ->
             handle_delete_unpub_idata_req(self, rpc.requester, rpc.address, rpc.message_id)
      [] rpc.rpc = "Response" ->
             handle_response(self, src, rpc.response, rpc.message_id)
      [] OTHER -> Ret(self, NoAction)

\* The data handler of the vault takes the rpc.
Deliver(vault, src, rpc, accumulation) ==
    LET r == handle_vault_rpc(vault.data_handler, src, rpc)
    IN  Routed(VaultState(vault.state, r.self, vault.accumulator), r.action, r.panic,
               accumulation, TRUE)

\* As accumulate_rpc, handing the rpc to the data handler on every valid share, also
\* while the accumulator has not enough shares.
accumulate_rpc_on_every_share(vault, src, rpc) ==
    IF rpc.rpc \notin {"Request", "Duplicate"} THEN NotRouted(vault)
    ELSE IF vault.state = "Infant" THEN NotRouted(vault)
    ELSE IF rpc.proof = NoShare THEN NotRouted(vault)
    ELSE LET request == IF rpc.rpc = "Duplicate"
                        THEN GetRequest(rpc.address)
                        ELSE [type |-> rpc.type, address |-> rpc.address]
             added == SignatureAccumulator_add(vault.accumulator,
                                               Key(request, rpc.message_id), rpc.proof)
             after == VaultState(vault.state, vault.data_handler, added.acc)
         IN  IF added.result \in {Ok, "NotEnoughShares"}
             THEN Deliver(after, src, rpc, added.result)
             ELSE Routed(after, NoAction, FALSE, added.result, FALSE)

accumulate_rpc(vault, src, rpc) ==
    IF rpc.rpc \notin {"Request", "Duplicate"} THEN NotRouted(vault)
    ELSE IF vault.state = "Infant" THEN NotRouted(vault)
    ELSE IF rpc.proof = NoShare THEN NotRouted(vault)
    ELSE LET request == IF rpc.rpc = "Duplicate"
                        THEN GetRequest(rpc.address)
                        ELSE [type |-> rpc.type, address |-> rpc.address]
             added == SignatureAccumulator_add(vault.accumulator,
                                               Key(request, rpc.message_id), rpc.proof)
             after == VaultState(vault.state, vault.data_handler, added.acc)
         IN  IF added.result = Ok
             THEN Deliver(after, src, rpc, added.result)
             ELSE Routed(after, NoAction, FALSE, added.result, FALSE)

\* As handle_routing_message, with the requests of nodes accumulated like those of
\* clients.
handle_routing_message_accumulates_all(vault, src, rpc) ==
    CASE rpc.rpc = "Undecodable" -> NotRouted(vault)
      [] rpc.rpc = "Request" ->
             IF rpc.type \in IDataRequestTypes \/ rpc.requester.kind = "Node"
             THEN accumulate_rpc(vault, src, rpc)
             ELSE Unimplemented(vault)
      [] rpc.rpc = "Response" ->
             IF rpc.response.type \notin ResponseTypes THEN Unimplemented(vault)
             ELSE IF vault.state # "Infant" THEN Deliver(vault, src, rpc, None)
             ELSE NotRouted(vault)
      [] rpc.rpc = "Duplicate" -> accumulate_rpc(vault, src, rpc)
      [] rpc.rpc = "DuplicationComplete" ->
             IF vault.state # "Infant" THEN Deliver(vault, src, rpc, None) ELSE NotRouted(vault)

handle_routing_message(vault, src, rpc) ==
    CASE rpc.rpc = "Undecodable" -> NotRouted(vault)
      [] rpc.rpc = "Request" /\ rpc.requester.kind = "Node" ->
             IF rpc.proof # NoShare /\ vault.state # "Infant"
             THEN Deliver(vault, src, rpc, None)
             ELSE NotRouted(vault)
      [] rpc.rpc = "Request" /\ rpc.requester.kind # "Node" ->
             IF rpc.type \in IDataRequestTypes
             THEN accumulate_rpc(vault, src, rpc)
             ELSE Unimplemented(vault)
      [] rpc.rpc = "Response" ->
             IF rpc.response.type \notin ResponseTypes THEN Unimplemented(vault)
             ELSE IF vault.state # "Infant" THEN Deliver(vault, src, rpc, None)
             ELSE NotRouted(vault)
      [] rpc.rpc = "Duplicate" -> accumulate_rpc(vault, src, rpc)
      [] rpc.rpc = "DuplicationComplete" ->
             IF vault.state # "Infant" THEN Deliver(vault, src, rpc, None) ELSE NotRouted(vault)

----------------------------------------------------------------------------
(* The state machine *)

Self == Handler(idata_ops, metadata)

Vault == VaultState(state, Self, accumulator)

Event(ev, requester, address, message_id, sender, result) ==
    [ev |-> ev, requester |-> requester, address |-> address, message_id |-> message_id,
     sender |-> sender, result |-> result, answer |-> None, out |-> NoAction,
     rpc |-> None, type |-> None, proof |-> NoShare, accumulation |-> None,
     delivered |-> FALSE]

\* Rpc::Response off the wire: the sender, the response variant and its NdResult.
ResponseEvent(message_id, sender, response) ==
    [Event("Response", NoId, NoAddr, message_id, sender, response.type)
        EXCEPT !.answer = response.result]

ClientResponses(actions, message_id) ==
    {a \in actions : a.action = "RespondToClientHandlers" /\ a.message_id = message_id}

\* The handler state, the emitted actions and the bookkeeping after an event.
Handled(self, actions, panic, event, is_response) ==
    /\ idata_ops' = self.idata_ops
    /\ metadata' = self.metadata
    /\ panicked' = panic
    /\ last' = [event EXCEPT !.out = actions]
    /\ resp_count' =
           [m \in MsgIds |->
               IF m \notin DOMAIN idata_ops /\ m \in DOMAIN self.idata_ops THEN 0
               ELSE IF is_response /\ ClientResponses(actions, m) # {}
               THEN Min(resp_count[m] + 1, 2)
               ELSE resp_count[m]]

HasDataHandler == state # "Infant"

\* No action has been given to handle_action, and no follow-up left aside.
NotPumped == [handled |-> <<>>, dropped |-> {}]

Init ==
    /\ state = "Infant"
    /\ idata_ops = EmptyMap
    /\ metadata = EmptyMap
    /\ adults = AdultNames
    /\ elders = ElderNames
    /\ panicked = FALSE
    /\ last = Event("idle", NoId, NoAddr, 0, 0, None)
    /\ resp_count = [m \in MsgIds |-> 0]
    /\ state_file = dump_state("Infant")
    /\ accumulator = SignatureAccumulator_new
    /\ proofs = [k \in Keys |-> 0]
    /\ running = TRUE
    /\ pumped = NotPumped

\* RoutingEvent::Connected: promote_to_adult; ok is whether the handlers could be made.
Connected(ok) ==
    /\ ~panicked /\ last.ev = "idle"
    /\ LET vault == promote_to_adult(Vault, ok)
       IN  /\ state' = vault.state
           /\ accumulator' = vault.accumulator
           /\ Handled(vault.data_handler, NoAction, FALSE,
                      Event("Connected", NoId, NoAddr, 0, 0, IF ok THEN Ok ELSE "Err"),
                      FALSE)
    /\ UNCHANGED <<adults, elders, state_file, proofs, running, pumped>>

\* RoutingEvent::Promoted: promote_to_elder.
Promoted(ok) ==
    /\ ~panicked /\ last.ev = "idle"
    /\ LET vault == promote_to_elder(Vault, ok)
       IN  /\ state' = vault.state
           /\ accumulator' = vault.accumulator
           /\ Handled(vault.data_handler, NoAction, FALSE,
                      Event("Promoted", NoId, NoAddr, 0, 0, IF ok THEN Ok ELSE "Err"),
                      FALSE)
    /\ UNCHANGED <<adults, elders, state_file, proofs, running, pumped>>

PutIData(requester, data, message_id) ==
    /\ ~panicked /\ last.ev = "idle" /\ HasDataHandler
    /\ LET r == handle_put_idata_req(Self, requester, data, message_id)
       IN  /\ Handled(r.self, r.action, r.panic,
                      Event("PutIData", requester, data, message_id, 0, None), FALSE)
    /\ UNCHANGED <<state, adults, elders, state_file, accumulator, proofs, running, pumped>>

GetIDataReq(requester, address, message_id) ==
    /\ ~panicked /\ last.ev = "idle" /\ HasDataHandler
    /\ LET r == handle_get_idata_req(Self, requester, address, message_id)
       IN  /\ Handled(r.self, r.action, r.panic,
                      Event("GetIData", requester, address, message_id, 0, None), FALSE)
    /\ UNCHANGED <<state, adults, elders, state_file, accumulator, proofs, running, pumped>>

DeleteUnpubIData(requester, address, message_id) ==
    /\ ~panicked /\ last.ev = "idle" /\ HasDataHandler
    /\ LET r == handle_delete_unpub_idata_req(Self, requester, address, message_id)
       IN  /\ Handled(r.self, r.action, r.panic,
                      Event("DeleteUnpubIData", requester, address, message_id, 0, None),
                      FALSE)
    /\ UNCHANGED <<state, adults, elders, state_file, accumulator, proofs, running, pumped>>

\* The sub-requests SendToPeers puts on the wire: one per target of an op.
SubRequests == [message_id : MsgIds, holder : Nodes, request : {"Put", "Get", "DeleteUnpub"}]

\* A holder that is in the section answers a sub-request it was sent and has not
\* answered yet.
HolderAnswer(sub, result) ==
    /\ ~panicked /\ last.ev = "idle" /\ HasDataHandler
    /\ sub.message_id \in DOMAIN idata_ops
    /\ sub.holder \in DOMAIN idata_ops[sub.message_id].rpc_states
    /\ idata_ops[sub.message_id].rpc_states[sub.holder] = Sent
    /\ idata_ops[sub.message_id].request.type = sub.request
    /\ sub.holder \in adults \cup elders
    /\ LET response == IF sub.request = "Get" THEN GetIData(result) ELSE Mutation(result)
           r == handle_response(Self, sub.holder, response, sub.message_id)
       IN  /\ Handled(r.self, r.action, r.panic,
                      ResponseEvent(sub.message_id, sub.holder, response), TRUE)
    /\ UNCHANGED <<state, adults, elders, state_file, accumulator, proofs, running, pumped>>

\* Any other response off the wire: duplicated, late, or from a sender that was
\* not targeted.
StrayResponse(sender, rtype, result, message_id) ==
    /\ ~panicked /\ last.ev = "idle" /\ HasDataHandler
    /\ LET response == [type |-> rtype, result |-> result]
           r == handle_response(Self, sender, response, message_id)
       IN  /\ Handled(r.self, r.action, r.panic,
                      ResponseEvent(message_id, sender, response), TRUE)
    /\ UNCHANGED <<state, adults, elders, state_file, accumulator, proofs, running, pumped>>

\* RoutingEvent::MemberLeft: the node leaves the section and answers nothing more
\* through HolderAnswer.
MemberLeft(name, ids) ==
    /\ ~panicked /\ last.ev = "idle"
    /\ name \in adults \cup elders
    /\ adults' = adults \ {name}
    /\ elders' = elders \ {name}
    /\ LET r == IF HasDataHandler
                THEN trigger_chunk_duplication(Self, name, ids)
                ELSE [self |-> Self, actions |-> {}]
       IN  /\ Handled(r.self, r.actions, FALSE,
                      Event("MemberLeft", NoId, NoAddr, 0, name, None), FALSE)
    /\ UNCHANGED <<state, state_file, accumulator, proofs, running, pumped>>

\* RoutingEvent::MemberJoined: the node is in the section again; the vault only logs
\* the member counts.
MemberJoined(name) ==
    /\ ~panicked /\ last.ev = "idle"
    /\ name \in Nodes \ (adults \cup elders)
    /\ adults' = IF name \in AdultNames THEN adults \cup {name} ELSE adults
    /\ elders' = IF name \in ElderNames THEN elders \cup {name} ELSE elders
    /\ Handled(Self, NoAction, FALSE, Event("MemberJoined", NoId, NoAddr, 0, name, None),
               FALSE)
    /\ UNCHANGED <<state, state_file, accumulator, proofs, running, pumped>>

\* The actions of the event are dispatched and the loop selects again.
Dispatch ==
    /\ last.ev # "idle"
    /\ last' = Event("idle", NoId, NoAddr, 0, 0, None)
    /\ UNCHANGED <<state, idata_ops, metadata, adults, elders, panicked, resp_count,
                   state_file, accumulator, proofs, running, pumped>>

Next ==
    \/ Dispatch
    \/ \E ok \in BOOLEAN : Connected(ok)
    \/ \E ok \in BOOLEAN : Promoted(ok)
    \/ \E requester \in PublicIds, data \in Addrs, message_id \in MsgIds :
           PutIData(requester, data, message_id)
    \/ \E requester \in PublicIds, address \in Addrs, message_id \in MsgIds :
           GetIDataReq(requester, address, message_id)
    \/ \E requester \in PublicIds, address \in Addrs, message_id \in MsgIds :
           DeleteUnpubIData(requester, address, message_id)
    \/ \E sub \in SubRequests, result \in HolderResults : HolderAnswer(sub, result)
    \/ \E sender \in Nodes, rtype \in ResponseTypes, result \in HolderResults,
          message_id \in MsgIds : StrayResponse(sender, rtype, result, message_id)
    \/ \E name \in Nodes, ids \in [Addrs -> MsgIds] : MemberLeft(name, ids)
    \/ \E name \in Nodes : MemberJoined(name)

Spec == Init /\ [][Next]_vars

\* The event loop dispatches the actions of every event it has handled, and a holder
\* that is in the section answers the sub-request it has been sent.
LiveSpec ==
    /\ Spec
    /\ WF_vars(Dispatch)
    /\ \A m \in MsgIds, h \in Nodes :
           SF_vars(\E sub \in SubRequests, result \in HolderResults :
                       /\ sub.message_id = m
                       /\ sub.holder = h
                       /\ HolderAnswer(sub, result))

----------------------------------------------------------------------------
(* Holder selection over larger sections: an Adult with an empty store, in a
   section of any of these adults and elders, admits PUTs. *)

SelectAdultNames == (OurName + 1)..(OurName + MaxSelectAdults)
SelectElderNames ==
    (OurName + MaxSelectAdults + 1)..(OurName + MaxSelectAdults + IMMUTABLE_DATA_COPY_COUNT)

SelectInit ==
    /\ state = "Adult"
    /\ idata_ops = EmptyMap
    /\ metadata = EmptyMap
    /\ adults \in SUBSET SelectAdultNames
    /\ elders \in SUBSET SelectElderNames
    /\ panicked = FALSE
    /\ last = Event("idle", NoId, NoAddr, 0, 0, None)
    /\ resp_count = [m \in MsgIds |-> 0]
    /\ state_file = dump_state("Infant")
    /\ accumulator = SignatureAccumulator_new
    /\ proofs = [k \in Keys |-> 0]
    /\ running = TRUE
    /\ pumped = NotPumped

SelectNext ==
    \/ Dispatch
    \/ \E requester \in PublicIds, data \in Addrs, message_id \in MsgIds :
           PutIData(requester, data, message_id)

SelectSpec == SelectInit /\ [][SelectNext]_vars

----------------------------------------------------------------------------
(* Routing messages: the vault, from its first start, takes role events, restarts
   and the messages routing delivers: requests and Duplicates with or without a
   proof share, responses and DuplicationComplete. *)

\* The messages are about one Published chunk, PUT and GET, from a client and from
\* a node.
RoutedAddrs == {PubAddr(n) : n \in ChunkNames}
RoutedRequesters == {p \in PublicIds : p.kind \in {"Client", "Node"}}

RoutedRpcs ==
    {RpcRequest(request, requester, message_id, proof) :
         request \in {PutRequest(a) : a \in RoutedAddrs}
                         \cup {GetRequest(a) : a \in RoutedAddrs},
         requester \in RoutedRequesters, message_id \in MsgIds,
         proof \in ProofShares \cup {NoShare}}
    \cup {RpcDuplicate(address, message_id, proof) :
              address \in RoutedAddrs, message_id \in MsgIds,
              proof \in ProofShares \cup {NoShare}}
    \cup {RpcResponse([type |-> rtype, result |-> result], message_id) :
              rtype \in ResponseTypes, result \in HolderResults, message_id \in MsgIds}
    \cup {RpcDuplicationComplete(message_id) : message_id \in MsgIds}

\* The accumulator key of a request or a Duplicate.
KeyOf(rpc) ==
    Key(IF rpc.rpc = "Duplicate"
        THEN GetRequest(rpc.address)
        ELSE [type |-> rpc.type, address |-> rpc.address],
        rpc.message_id)

RoutedEvent(src, rpc, routed) ==
    [Event("MessageReceived", rpc.requester, rpc.address, rpc.message_id,
           IF rpc.rpc = "Response" THEN src ELSE 0,
           IF rpc.rpc = "Response" THEN rpc.response.type ELSE None)
        EXCEPT !.answer = IF rpc.rpc = "Response" THEN rpc.response.result ELSE None,
               !.rpc = rpc.rpc,
               !.type = rpc.type,
               !.proof = rpc.proof,
               !.accumulation = routed.accumulation,
               !.delivered = routed.delivered]

\* RoutingEvent::MessageReceived: handle_routing_message.
MessageReceived(src, rpc) ==
    /\ ~panicked /\ last.ev = "idle"
    /\ LET r == handle_routing_message(Vault, src, rpc)
       IN  /\ accumulator' = r.vault.accumulator
           /\ proofs' = IF r.accumulation = Ok
                        THEN [proofs EXCEPT ![KeyOf(rpc)] = Min(@ + 1, 2)]
                        ELSE proofs
           /\ Handled(r.vault.data_handler, r.action, r.panic, RoutedEvent(src, rpc, r),
                      rpc.rpc = "Response")
    /\ UNCHANGED <<state, adults, elders, state_file, running, pumped>>

\* The process is stopped and started again over the same root directory: Vault::new.
Restart ==
    /\ ~panicked /\ last.ev = "idle"
    /\ LET vault == Vault_new(state_file, metadata)
       IN  /\ state' = vault.state
           /\ accumulator' = vault.accumulator
           /\ state_file' = dump_state(vault.state)
           /\ Handled(vault.data_handler, NoAction, FALSE,
                      Event("Restart", NoId, NoAddr, 0, 0, None), FALSE)
    /\ UNCHANGED <<adults, elders, proofs, running, pumped>>

RoutingNext ==
    \/ Dispatch
    \/ \E ok \in BOOLEAN : Connected(ok)
    \/ \E ok \in BOOLEAN : Promoted(ok)
    \/ \E src \in Nodes, rpc \in RoutedRpcs : MessageReceived(src, rpc)
    \/ Restart

RoutingSpec == Init /\ [][RoutingNext]_vars

----------------------------------------------------------------------------
(* Properties *)

RequestEvents == {"PutIData", "GetIData", "DeleteUnpubIData"}
ReadEvents == {"GetIData", "DeleteUnpubIData"}
ClientOrApp == {p \in PublicIds : p.kind # "Node"}

\* Among the actions there is a response to the client handlers for this requester
\* and message-id carrying this result.
RepliedWith(actions, requester, message_id, result) ==
    \E a \in actions : /\ a.action = "RespondToClientHandlers"
                       /\ a.requester = requester
                       /\ a.message_id = message_id
                       /\ a.response.result = result

Replied(actions, requester, message_id) ==
    \E a \in actions : /\ a.action = "RespondToClientHandlers"
                       /\ a.requester = requester
                       /\ a.message_id = message_id

SentToPeers(actions) == {a \in actions : a.action = "SendToPeers"}

\* C1: for every admitted request (one op in the ledger under its message-id) the
\* response handlers emit at most one RespondToClientHandlers carrying that
\* message-id during the life of the op, whatever the order of the holders'
\* responses and also when responses are repeated, late or from senders that were
\* not targeted.
C1_AtMostOneClientResponse == \A m \in MsgIds : resp_count[m] <= 1

\* A response is absorbed without an action by an op that is still live and has
\* already given its answer to the client.
C1_Witness ==
    /\ last.ev = "Response"
    /\ last.out = NoAction
    /\ last.message_id \in DOMAIN idata_ops
    /\ resp_count[last.message_id] = 1

\* C2: every PUT, GET or DELETE-unpublished of a client or app handed to admission,
\* answered there or sent on to at least one holder, is eventually followed by a
\* response to the client handlers for that requester and message-id, in every run
\* where the holders that are in the section answer the sub-requests sent to them; a
\* targeted holder may leave the section before it answers.  Runs in which the
\* handlers are created anew (Connected, Promoted) or the process stops on a failed
\* assertion after the request are not held against the property.
C2_EveryRequestAnswered ==
    \A requester \in ClientOrApp, m \in MsgIds :
        (/\ last.ev \in RequestEvents
         /\ last.requester = requester
         /\ last.message_id = m
         /\ \A a \in SentToPeers(last.out) : a.targets # {})
            ~> \/ Replied(last.out, requester, m)
               \/ last.ev \in {"Connected", "Promoted"}
               \/ panicked

\* C3: an admission (PUT, GET or DELETE-unpublished) made while an op with the same
\* message-id is live in the ledger is answered DuplicateMessageId, whatever the
\* metadata of the address it names and whoever the requester is.
C3_DuplicateIdAlwaysRejected ==
    [][(last'.ev \in RequestEvents /\ last'.message_id \in DOMAIN idata_ops)
           => RepliedWith(last'.out, last'.requester, last'.message_id,
                          "DuplicateMessageId")]_vars

\* C4: an admission whose message-id is live leaves the ledger and the metadata store
\* as they were: the op under that id keeps its request, its requester and every
\* rpc_states entry, and it stays the only op under that id.
C4_DuplicateAdmissionChangesNothing ==
    [][(last'.ev \in RequestEvents /\ last'.message_id \in DOMAIN idata_ops)
           => (idata_ops' = idata_ops /\ metadata' = metadata)]_vars

\* A GET that passed the metadata and owner checks was answered DuplicateMessageId
\* while a PUT op is live under its message-id.
C4_Witness ==
    /\ last.ev = "GetIData"
    /\ RepliedWith(last.out, last.requester, last.message_id, "DuplicateMessageId")
    /\ last.message_id \in DOMAIN idata_ops
    /\ idata_ops[last.message_id].request.type = "Put"

\* C5: after every event the ledger holds no concluded op: every op in it, of every
\* request kind and every requester kind, has an rpc_states entry that is Sent.
C5_NoConcludedOpInLedger == \A m \in DOMAIN idata_ops : ~concluded(idata_ops[m])

\* C6: every record in the metadata store has a holders set that is not empty, after
\* any interleaving of PUT responses, DELETE responses and MemberLeft events.
C6_HoldersNonEmpty == \A k \in DOMAIN metadata : metadata[k].holders # {}

\* The response that concludes a DELETE has been handled and the store holds no record.
C6_Witness ==
    /\ last.ev = "Response"
    /\ last.result = "Mutation"
    /\ last.out # NoAction
    /\ metadata = EmptyMap

\* C7: a record of the metadata store has an owner if and only if its address is
\* Unpublished; the record of a Published chunk has owner None.
C7_OwnerIffUnpublished ==
    \A k \in DOMAIN metadata :
        (metadata[k].owner # None) <=> (db_key_to_idata_address(k).kind = "Unpublished")

\* C8: a GET of a Published address that has a record with holders, by any client or
\* app, is never answered AccessDenied, and when its message-id is free an op is
\* created for it and SendToPeers is emitted.
C8_PublishedWorldReadable ==
    [][(/\ last'.ev = "GetIData"
        /\ last'.address.kind = "Published"
        /\ last'.requester \in ClientOrApp
        /\ get_metadata_for(Self, last'.address).ok)
           => /\ ~RepliedWith(last'.out, last'.requester, last'.message_id, "AccessDenied")
              /\ last'.message_id \notin DOMAIN idata_ops
                    => /\ last'.message_id \in DOMAIN idata_ops'
                       /\ SentToPeers(last'.out) # {}]_vars

\* C9: a GET or DELETE-unpublished of an Unpublished chunk that has a record, by a
\* client or app whose key is not the owner stored in the record, is answered
\* AccessDenied; no op is inserted, no SendToPeers is emitted and the metadata store
\* is as it was.
C9_NonOwnerDenied ==
    [][(/\ last'.ev \in ReadEvents
        /\ last'.address.kind = "Unpublished"
        /\ last'.requester \in ClientOrApp
        /\ get_metadata_for(Self, last'.address).ok
        /\ get_metadata_for(Self, last'.address).metadata.owner # own_key(last'.requester))
           => /\ RepliedWith(last'.out, last'.requester, last'.message_id, "AccessDenied")
              /\ SentToPeers(last'.out) = {}
              /\ idata_ops' = idata_ops
              /\ metadata' = metadata]_vars

\* A DELETE-unpublished by a requester that is not the owner was answered AccessDenied.
C9_Witness ==
    /\ last.ev = "DeleteUnpubIData"
    /\ last.address.kind = "Unpublished"
    /\ to_db_key(last.address) \in DOMAIN metadata
    /\ metadata[to_db_key(last.address)].owner # own_key(last.requester)
    /\ RepliedWith(last.out, last.requester, last.message_id, "AccessDenied")

\* C10: a GET or DELETE-unpublished of an address that has no record in the metadata
\* store is answered NoSuchData with refund None; no op is created and nothing is
\* sent to a holder.
C10_NoRecordNoSuchData ==
    [][(last'.ev \in ReadEvents /\ to_db_key(last'.address) \notin DOMAIN metadata)
           => /\ \E a \in last'.out : /\ a.action = "RespondToClientHandlers"
                                      /\ a.requester = last'.requester
                                      /\ a.message_id = last'.message_id
                                      /\ a.response.result = "NoSuchData"
                                      /\ a.refund = None
              /\ SentToPeers(last'.out) = {}
              /\ idata_ops' = idata_ops]_vars

\* A GET was answered NoSuchData after the holders of the section had left and the
\* store held no record.
C10_Witness ==
    /\ last.ev = "GetIData"
    /\ RepliedWith(last.out, last.requester, last.message_id, "NoSuchData")
    /\ to_db_key(last.address) \notin DOMAIN metadata
    /\ adults \cup elders = {}

\* C11: a PUT for an address that has a record in the metadata store is answered at
\* admission, Mutation(Ok) for a Published chunk and Mutation(Err(DataExists)) for an
\* Unpublished one, and has no side effect: the metadata store and the ledger are as
\* they were and no SendToPeers is emitted.
C11_ExistingPutAnsweredAtAdmission ==
    [][(last'.ev = "PutIData" /\ to_db_key(last'.address) \in DOMAIN metadata)
           => /\ RepliedWith(last'.out, last'.requester, last'.message_id,
                             IF last'.address.kind = "Published" THEN Ok ELSE "DataExists")
              /\ Cardinality(last'.out) = 1
              /\ SentToPeers(last'.out) = {}
              /\ idata_ops' = idata_ops
              /\ metadata' = metadata]_vars

\* A second PUT of a Published chunk that has a record was answered Mutation(Ok).
C11_Witness ==
    /\ last.ev = "PutIData"
    /\ last.address.kind = "Published"
    /\ to_db_key(last.address) \in DOMAIN metadata
    /\ RepliedWith(last.out, last.requester, last.message_id, Ok)

\* The event is the admission of a PUT, or a holder's response to a PUT op.
IsForPut(event) ==
    \/ event.ev = "PutIData"
    \/ /\ event.ev = "Response"
       /\ event.message_id \in DOMAIN idata_ops
       /\ idata_ops[event.message_id].request.type = "Put"

Responses(actions) == {a \in actions : a.action # "SendToPeers"}

\* C12: every response emitted for a PUT, at admission or at conclusion, has refund
\* Some(COST_OF_PUT) exactly when its result is an error; every response emitted for
\* a GET, a DELETE-unpublished or a duplication GET has refund None.
C12_RefundPolicy ==
    [][\A a \in Responses(last'.out) :
           IF IsForPut(last')
           THEN a.refund = (IF is_err(a.response.result) THEN COST_OF_PUT ELSE None)
           ELSE a.refund = None]_vars

\* A PUT of an Unpublished chunk that has a record was refused and refunded.
C12_Witness ==
    /\ last.ev = "PutIData"
    /\ \E a \in Responses(last.out) : a.response.result = "DataExists" /\ a.refund = COST_OF_PUT

\* The op under the event's message-id as the response leaves its rpc_states.
OpAfter(event) ==
    set_to_actioned(idata_ops[event.message_id], event.sender, err(event.answer))

\* The event is a response of this variant to a live op of this request type, from
\* a holder the op targeted.
IsAnswerTo(event, rtype, request) ==
    /\ event.ev = "Response"
    /\ event.result = rtype
    /\ event.message_id \in DOMAIN idata_ops
    /\ idata_ops[event.message_id].request.type = request
    /\ event.sender \in DOMAIN idata_ops[event.message_id].rpc_states

\* C13: a PUT that fails at the holders is reported as failed: when the PUT op of a
\* client or app concludes and every targeted holder has answered with an error, the
\* response to the client handlers is Mutation(Err(..)) with refund Some(COST_OF_PUT).
C13_FailedPutReportedFailed ==
    [][(/\ IsAnswerTo(last', "Mutation", "Put")
        /\ idata_ops[last'.message_id].client \in ClientOrApp
        /\ concluded(OpAfter(last'))
        /\ \A h \in DOMAIN OpAfter(last').rpc_states :
               OpAfter(last').rpc_states[h].error # None)
           => \E a \in last'.out :
                  /\ a.action = "RespondToClientHandlers"
                  /\ a.requester = idata_ops[last'.message_id].client
                  /\ a.message_id = last'.message_id
                  /\ a.response.type = "Mutation"
                  /\ is_err(a.response.result)
                  /\ a.refund = COST_OF_PUT]_vars

\* The holders recorded for the address, none when it has no record.
HoldersOf(meta, address) ==
    IF to_db_key(address) \in DOMAIN meta THEN meta[to_db_key(address)].holders ELSE {}

AnsweredOk(op) == {h \in DOMAIN op.rpc_states : op.rpc_states[h] = Actioned(None)}

StillSent(op) == {h \in DOMAIN op.rpc_states : op.rpc_states[h].tag = "Sent"}

C15_DeleteResponseRemovesSender ==
    [][IsAnswerTo(last', "Mutation", "DeleteUnpub")
           => LET key == to_db_key(idata_ops[last'.message_id].request.address)
              IN  IF last'.answer = Ok /\ key \in DOMAIN metadata
                  THEN LET remaining == metadata[key].holders \ {last'.sender}
                       IN  /\ DOMAIN metadata' = IF remaining = {}
                                                 THEN DOMAIN metadata \ {key}
                                                 ELSE DOMAIN metadata
                           /\ \A k \in DOMAIN metadata' \ {key} : metadata'[k] = metadata[k]
                           /\ remaining # {}
                                 => metadata'[key] =
                                        ChunkMetadata(remaining, metadata[key].owner)
                  ELSE metadata' = metadata]_vars

\* The first of two holders has answered the DELETE with Ok: the record is kept with
\* the other holder alone.
C15_Witness ==
    /\ last.ev = "Response"
    /\ last.answer = Ok
    /\ last.message_id \in DOMAIN idata_ops
    /\ LET op == idata_ops[last.message_id]
       IN  /\ op.request.type = "DeleteUnpub"
           /\ last.sender \in DOMAIN op.rpc_states
           /\ op.rpc_states[last.sender] = Actioned(None)
           /\ HoldersOf(metadata, op.request.address) = DOMAIN op.rpc_states \ {last.sender}
           /\ HoldersOf(metadata, op.request.address) # {}

RecordedErrors(op) ==
    {op.rpc_states[h].error : h \in {g \in DOMAIN op.rpc_states : op.rpc_states[g].error # None}}

\* C16: a DELETE op produces its client response exactly when it concludes, on the
\* response that leaves no holder Sent: the result is Ok when no holder's recorded
\* state carries an error and otherwise the error recorded for a holder, the refund
\* is None; a response that leaves a holder Sent emits nothing.
C16_DeleteAnsweredAtConclusion ==
    [][IsAnswerTo(last', "Mutation", "DeleteUnpub")
           => LET m == last'.message_id
                  op == idata_ops[m]
                  errors == RecordedErrors(OpAfter(last'))
              IN  IF StillSent(OpAfter(last')) = {}
                  THEN \E result \in (IF errors = {} THEN {Ok} ELSE errors) :
                           last'.out = {RespondToClientHandlers(op.request.address.name,
                                            op.client, Mutation(result), m, None)}
                  ELSE last'.out = NoAction]_vars

\* C17: for the GET op of a client or app, the first response received from a
\* targeted holder, payload or error, is the one passed on to the client; every later
\* response from a targeted holder only updates that holder's rpc_state and emits no
\* action; the op is removed once no holder is Sent; the metadata store is not
\* touched.
C17_FirstGetResponseWins ==
    [][(/\ IsAnswerTo(last', "GetIData", "Get")
        /\ idata_ops[last'.message_id].client \in ClientOrApp)
           => LET m == last'.message_id
                  op == idata_ops[m]
              IN  /\ last'.out =
                         IF AnsweredOk(op) = {} /\ RecordedErrors(op) = {}
                         THEN {RespondToClientHandlers(op.request.address.name, op.client,
                                                       GetIData(last'.answer), m, None)}
                         ELSE NoAction
                  /\ IF StillSent(OpAfter(last')) = {}
                     THEN m \notin DOMAIN idata_ops'
                     ELSE m \in DOMAIN idata_ops' /\ idata_ops'[m] = OpAfter(last')
                  /\ metadata' = metadata]_vars

\* The payload of the holder that answered last was absorbed after an earlier answer
\* had gone to the client: nothing was emitted and the op, now concluded, is gone.
C17_Witness ==
    /\ last.ev = "Response"
    /\ last.result = "GetIData"
    /\ last.answer = Ok
    /\ last.out = NoAction
    /\ resp_count[last.message_id] = 1
    /\ last.message_id \notin DOMAIN idata_ops
    /\ \E a \in Addrs : last.sender \in HoldersOf(metadata, a)

\* C18: after MemberLeft(name) has been handled by a node that has a data handler, no
\* record of the metadata store has name among its holders; every record whose
\* holders were exactly {name} is removed; every record that did not list name is as
\* it was, and the others keep their owner and their holders but name; and the
\* repair map returned holds exactly the addresses that listed name, each with its
\* former holders minus name.
C18_MemberLeftRepairsMetadata ==
    [][(last'.ev = "MemberLeft" /\ HasDataHandler)
           => LET name == last'.sender
                  listed == {k \in DOMAIN metadata : name \in metadata[k].holders}
                  repair == check_idata_holders(Self, name).addresses
              IN  /\ DOMAIN metadata' =
                         DOMAIN metadata \ {k \in listed : metadata[k].holders = {name}}
                  /\ \A k \in DOMAIN metadata' :
                         metadata'[k] = ChunkMetadata(metadata[k].holders \ {name},
                                                      metadata[k].owner)
                  /\ DOMAIN repair = {a \in Addrs : to_db_key(a) \in listed}
                  /\ \A a \in DOMAIN repair :
                         repair[a] = metadata[to_db_key(a)].holders \ {name}]_vars

\* A holder of two records has left: both records are kept with the other holder
\* alone.
C18_Witness ==
    /\ last.ev = "MemberLeft"
    /\ Cardinality(DOMAIN metadata) = 2
    /\ \A k \in DOMAIN metadata :
           /\ last.sender \notin metadata[k].holders
           /\ Cardinality(metadata[k].holders) = 1
    /\ Cardinality(last.out) >= 1

\* C19: holder selection returns at most IMMUTABLE_DATA_COPY_COUNT = 3 names for every
\* membership of the section, sections of more than 3 adults included; so every PUT op
\* is created with at most 3 target holders and its SendToPeers has at most 3
\* targets.
C19_AtMostThreeHolders ==
    /\ (last.ev = "PutIData" /\ SentToPeers(last.out) # {})
          => Len(make_holder_list_for_idata(last.address.name)) <= IMMUTABLE_DATA_COPY_COUNT
    /\ \A a \in SentToPeers(last.out) :
           a.request = "Put" => Cardinality(a.targets) <= IMMUTABLE_DATA_COPY_COUNT
    /\ \A m \in DOMAIN idata_ops :
           idata_ops[m].request.type = "Put"
              => Cardinality(DOMAIN idata_ops[m].rpc_states) <= IMMUTABLE_DATA_COPY_COUNT

\* C20: the role changes only by the rows of the transition table: Connected moves an
\* Infant to Adult and Promoted moves an Adult to Elder (an Elder stays Elder); no
\* event moves an Elder to Adult or Infant, Connected does not change the role of an
\* Adult or an Elder, and an Infant does not become Elder without being Adult first.
C20_RoleFollowsTransitionTable ==
    [][state' # state
           => \/ state = "Infant" /\ last'.ev = "Connected" /\ state' = "Adult"
              \/ state = "Adult" /\ last'.ev = "Promoted" /\ state' = "Elder"]_vars

\* C24: the per-holder state is monotonic: the key set of an op's rpc_states never
\* changes after creation, every entry starts as Sent, and once an entry is Actioned
\* no later event returns it to Sent.
C24_RpcStatesMonotonic ==
    [][\A m \in MsgIds :
           /\ (m \notin DOMAIN idata_ops /\ m \in DOMAIN idata_ops')
                 => \A h \in DOMAIN idata_ops'[m].rpc_states :
                        idata_ops'[m].rpc_states[h] = Sent
           /\ (m \in DOMAIN idata_ops /\ m \in DOMAIN idata_ops')
                 => /\ DOMAIN idata_ops'[m].rpc_states = DOMAIN idata_ops[m].rpc_states
                    /\ \A h \in DOMAIN idata_ops[m].rpc_states :
                           idata_ops[m].rpc_states[h] # Sent
                              => idata_ops'[m].rpc_states[h] # Sent]_vars

\* A holder of a GET op answers a second time while the other holder has not
\* answered: its entry stays Actioned, the other stays Sent, nothing is emitted.
C24_Witness ==
    /\ last.ev = "Response"
    /\ last.result = "GetIData"
    /\ last.out = NoAction
    /\ last.message_id \in DOMAIN idata_ops
    /\ LET op == idata_ops[last.message_id]
       IN  /\ op.request.type = "Get"
           /\ last.sender \in DOMAIN op.rpc_states
           /\ op.rpc_states[last.sender] # Sent
           /\ \E h \in DOMAIN op.rpc_states : op.rpc_states[h] = Sent

\* C25: a holder response whose message-id has no op in the ledger, or whose sender
\* is not a key of the op's rpc_states, is dropped: the ledger and the metadata store
\* are unchanged and no action is emitted (for Mutation responses, and for GetIData
\* responses to ops with a non-empty target set).
C25_UnexpectedResponseDropped ==
    [][(/\ last'.ev = "Response"
        /\ \/ last'.message_id \notin DOMAIN idata_ops
           \/ /\ last'.sender \notin DOMAIN idata_ops[last'.message_id].rpc_states
              /\ \/ last'.result = "Mutation"
                 \/ DOMAIN idata_ops[last'.message_id].rpc_states # {})
           => /\ idata_ops' = idata_ops
              /\ metadata' = metadata
              /\ last'.out = NoAction]_vars

\* C26: an admitted GET or DELETE-unpublished creates an op whose rpc_states keys are
\* exactly the holders of the metadata record read at admission, all in state Sent,
\* and emits one SendToPeers whose targets are exactly that set and whose requester
\* is this node's id.
C26_ReadOpTargetsRecordedHolders ==
    [][(/\ last'.ev \in ReadEvents
        /\ last'.message_id \notin DOMAIN idata_ops
        /\ last'.message_id \in DOMAIN idata_ops')
           => LET m == last'.message_id
                  holders == HoldersOf(metadata, last'.address)
                  request == IF last'.ev = "GetIData"
                             THEN GetRequest(last'.address)
                             ELSE DeleteUnpubRequest(last'.address)
              IN  /\ holders # {}
                  /\ idata_ops'[m].client = last'.requester
                  /\ idata_ops'[m].request = request
                  /\ DOMAIN idata_ops'[m].rpc_states = holders
                  /\ \A h \in holders : idata_ops'[m].rpc_states[h] = Sent
                  /\ last'.out = {[action |-> "SendToPeers", sender |-> OurName,
                                   requester |-> OurId, response |-> Mutation(None),
                                   message_id |-> m, refund |-> None,
                                   targets |-> holders, request |-> request.type]}
                  /\ metadata' = metadata]_vars

\* A GET has been admitted for a chunk whose record lists one holder while the
\* section has two members: the op and the SendToPeers are over that one holder.
C26_Witness ==
    /\ last.ev = "GetIData"
    /\ last.message_id \in DOMAIN idata_ops
    /\ Cardinality(adults \cup elders) = 2
    /\ \E a \in SentToPeers(last.out) :
           /\ a.request = "Get"
           /\ a.requester = OurId
           /\ Cardinality(a.targets) = 1
           /\ a.targets = HoldersOf(metadata, last.address)
           /\ DOMAIN idata_ops[last.message_id].rpc_states = a.targets

\* C27: the assertion in DELETE conclusion always holds: on every step in which a
\* DELETE op concludes, at most one of its holders has a recorded error, whatever the
\* number of target holders and whether each answers Ok or an error.
C27_DeleteAssertionHolds ==
    [][(/\ IsAnswerTo(last', "Mutation", "DeleteUnpub")
        /\ StillSent(OpAfter(last')) = {})
           => /\ Cardinality(DOMAIN get_any_errors(OpAfter(last'))) <= 1
              /\ ~panicked']_vars

\* C28: for a PUT op whose requester is a node, each response from a targeted holder
\* inserts the sender into the persisted holders of the address and leaves the
\* record's owner untouched; for a client or app requester it inserts the sender and
\* sets the owner to the requester's own key.
C28_PutResponseRecordsHolder ==
    [][IsAnswerTo(last', "Mutation", "Put")
           => LET op == idata_ops[last'.message_id]
                  db_key == to_db_key(op.request.address)
                  stored == IF db_key \in DOMAIN metadata
                            THEN metadata[db_key]
                            ELSE DefaultChunkMetadata
              IN  /\ db_key \in DOMAIN metadata'
                  /\ metadata'[db_key].holders = stored.holders \cup {last'.sender}
                  /\ metadata'[db_key].owner =
                         IF op.client \in ClientOrApp THEN op.client.key ELSE stored.owner]_vars

\* C21: after every role change the is_elder flag of the state file equals whether
\* the role in memory is Elder, so that a restart (read_state in Vault::new) comes
\* back as Elder exactly when the node was an Elder when it stopped.
C21_StateFileFollowsRole ==
    [][/\ state_file'.is_elder = (state' = "Elder")
       /\ last'.ev = "Restart" => ((state' = "Elder") = (state = "Elder"))]_vars

\* The accumulator key of the request or Duplicate of a routed event.
KeyOfEvent(event) ==
    Key(IF event.rpc = "Duplicate"
        THEN GetRequest(event.address)
        ELSE [type |-> event.type, address |-> event.address],
        event.message_id)

\* The event is a routed request of a client or app, or a routed Duplicate.
IsAccumulated(event) ==
    /\ event.ev = "MessageReceived"
    /\ \/ event.rpc = "Duplicate"
       \/ event.rpc = "Request" /\ event.requester.kind # "Node"

\* C22: a client-issued IData request (or an Rpc::Duplicate) arriving from routing
\* reaches the data handler only when the accumulator returns a combined proof for
\* its (request, message-id) key, not on NotEnoughShares, AlreadyAccumulated or
\* InvalidShare, nor without a proof share; and for a given key the data handler is
\* invoked at most once in any sequence of routing events (share arrivals,
\* Connected, Promoted).
C22_DeliveredOncePerKey ==
    [][/\ (IsAccumulated(last') /\ last'.delivered)
             => /\ last'.proof # NoShare
                /\ SignatureAccumulator_add(accumulator, KeyOfEvent(last'),
                                            last'.proof).result = Ok
       /\ \A k \in Keys : proofs'[k] <= 1]_vars

\* The step replaced the accumulator: a role transition that succeeded, or a
\* restart.
NewAccumulator(event) ==
    \/ event.ev \in {"Connected", "Promoted"} /\ event.result = Ok
    \/ event.ev = "Restart"

\* C22 (amended): a client-issued IData request or a Duplicate reaches the data
\* handler only on the share for which the accumulator returns the combined proof of
\* its key; and over the life of one accumulator a key is handed over at most once:
\* the key was not accumulated before the step, is accumulated after it, and stays
\* accumulated until a role transition or a restart replaces the accumulator.
C22_DeliveredOncePerAccumulator ==
    [][/\ (IsAccumulated(last') /\ last'.delivered)
             => /\ last'.proof # NoShare
                /\ SignatureAccumulator_add(accumulator, KeyOfEvent(last'),
                                            last'.proof).result = Ok
                /\ KeyOfEvent(last') \notin accumulator.accumulated
                /\ KeyOfEvent(last') \in accumulator'.accumulated
       /\ \/ accumulator.accumulated \subseteq accumulator'.accumulated
          \/ NewAccumulator(last')]_vars

\* A client's request is handed to the data handler for the second time, by the
\* accumulator of the role the vault has been promoted to in between.
C22_Witness ==
    /\ IsAccumulated(last)
    /\ last.rpc = "Request"
    /\ last.delivered
    /\ last.out # NoAction
    /\ proofs[KeyOfEvent(last)] = 2
    /\ accumulator.accumulated = {KeyOfEvent(last)}

\* C23: a routing Rpc::Request whose requester is a node is never added to the
\* accumulator: with a proof share it is dispatched to the data handler directly on
\* first arrival, and without a proof share it is dropped with no state change and
\* no action; Rpc::Response (Mutation, GetIData) and Rpc::DuplicationComplete go to
\* the data handler without accumulation.
C23_NodeRequestsBypassAccumulator ==
    [][last'.ev = "MessageReceived"
           => /\ (last'.rpc = "Request" /\ last'.requester.kind = "Node")
                    => /\ accumulator' = accumulator
                       /\ proofs' = proofs
                       /\ last'.accumulation = None
                       /\ IF last'.proof # NoShare /\ HasDataHandler
                          THEN LET rpc == RpcRequest([type |-> last'.type,
                                                      address |-> last'.address],
                                                     last'.requester, last'.message_id,
                                                     last'.proof)
                                   r == handle_vault_rpc(Self, last'.sender, rpc)
                               IN  /\ last'.delivered
                                   /\ idata_ops' = r.self.idata_ops
                                   /\ metadata' = r.self.metadata
                                   /\ last'.out = r.action
                          ELSE /\ ~last'.delivered
                               /\ idata_ops' = idata_ops
                               /\ metadata' = metadata
                               /\ state' = state
                               /\ last'.out = NoAction
              /\ last'.rpc \in {"Response", "DuplicationComplete"}
                    => /\ accumulator' = accumulator
                       /\ proofs' = proofs
                       /\ last'.accumulation = None
                       /\ last'.delivered = HasDataHandler]_vars

\* A request of a node with one proof share has been admitted by the data handler on
\* arrival, while the accumulator holds the single share of another request.
C23_Witness ==
    /\ last.ev = "MessageReceived"
    /\ last.rpc = "Request"
    /\ last.requester.kind = "Node"
    /\ last.proof # NoShare
    /\ last.delivered
    /\ SentToPeers(last.out) # {}
    /\ last.message_id \in DOMAIN idata_ops
    /\ accumulator.accumulated = {}
    /\ DOMAIN accumulator.shares # {}

\* C29: a role transition that fails to construct a handler leaves the node in its
\* previous role with its previous handlers: the ledger, the accumulator and the
\* role variant are those it had before the Connected or Promoted event.
C29_FailedTransitionKeepsRole ==
    [][(last'.ev \in {"Connected", "Promoted"} /\ last'.result = "Err")
           => /\ state' = state
              /\ idata_ops' = idata_ops
              /\ accumulator' = accumulator
              /\ last'.out = NoAction]_vars

\* Promoted has failed in an Adult that has a live op and a share in its
\* accumulator: it is still an Adult and has both.
C29_Witness ==
    /\ last.ev = "Promoted"
    /\ last.result = "Err"
    /\ state = "Adult"
    /\ DOMAIN idata_ops # {}
    /\ DOMAIN accumulator.shares # {}

\* What the accumulator would answer if this rpc arrived at this vault.
AccumulationOf(vault, rpc) == accumulate_rpc(vault, 0, rpc).accumulation

\* C30: two semantically distinct requests that share a message-id are accumulated
\* under distinct keys: the shares of an Rpc::Duplicate{address, message_id} and
\* those of a client's Rpc::Request for IData Get(address) with the same message_id
\* never count toward each other's threshold, and accumulating one never makes the
\* other AlreadyAccumulated: the arrival of a share of one leaves unchanged what the
\* accumulator answers to every share of the other.
C30_DuplicateAndGetKeyedApart ==
    [][IsAccumulated(last')
           => \A share \in ProofShares, requester \in ClientOrApp :
                  LET get == RpcRequest(GetRequest(last'.address), requester,
                                        last'.message_id, share)
                      dup == RpcDuplicate(last'.address, last'.message_id, share)
                  IN  /\ last'.rpc = "Duplicate"
                            => AccumulationOf(Vault', get) = AccumulationOf(Vault, get)
                      /\ (last'.rpc = "Request" /\ last'.type = "Get")
                            => AccumulationOf(Vault', dup) = AccumulationOf(Vault, dup)]_vars

\* The addresses for which MemberLeft(name) opens a duplication GET: those whose
\* record lists name along with another holder.
Repaired(meta, name) ==
    {a \in Addrs : name \in HoldersOf(meta, a) /\ HoldersOf(meta, a) # {name}}

\* C32: a duplication GET (get_idata_copy) has the same duplicate-id protection as
\* client ops: with a live message-id it answers GetIData(Err(DuplicateMessageId)) to
\* our data handlers and leaves the ledger unchanged; otherwise it inserts one Get op
\* with the given holders all Sent and emits SendToPeers to exactly them.
C32_CopyGetRejectsLiveId ==
    [][(last'.ev = "MemberLeft" /\ HasDataHandler)
           => LET name == last'.sender
                  sent == SentToPeers(last'.out)
                  inserted == {a.message_id : a \in sent}
              IN  /\ \A a \in last'.out \ sent :
                         /\ a.action = "RespondToOurDataHandlers"
                         /\ a.response = GetIData("DuplicateMessageId")
                         /\ a.requester = OurId
                         /\ a.message_id \in DOMAIN idata_ops \cup inserted
                  /\ \A a \in sent :
                         /\ a.message_id \notin DOMAIN idata_ops
                         /\ a.request = "Get"
                         /\ \E address \in Repaired(metadata, name) :
                                /\ a.targets = HoldersOf(metadata, address) \ {name}
                                /\ idata_ops'[a.message_id] =
                                       [client |-> OurId,
                                        request |-> GetRequest(address),
                                        rpc_states |-> [h \in a.targets |-> Sent]]
                  /\ DOMAIN idata_ops' = DOMAIN idata_ops \cup inserted
                  /\ \A m \in DOMAIN idata_ops : idata_ops'[m] = idata_ops[m]
                  /\ Cardinality(last'.out) <= Cardinality(Repaired(metadata, name))
                  /\ Repaired(metadata, name) # {} => last'.out # {}
                  /\ MsgIds \subseteq DOMAIN idata_ops => sent = {}]_vars

\* A holder of two records has left while the ledger was empty: the duplication GET of
\* the first address is in the ledger with the other holder Sent, and the one of the
\* second address, given the same message-id, has been answered DuplicateMessageId.
C32_Witness ==
    /\ last.ev = "MemberLeft"
    /\ Cardinality(last.out) = 2
    /\ Cardinality(SentToPeers(last.out)) = 1
    /\ \E a \in last.out : /\ a.action = "RespondToOurDataHandlers"
                           /\ a.response = GetIData("DuplicateMessageId")
    /\ \A m \in DOMAIN idata_ops :
           /\ idata_ops[m].client = OurId
           /\ idata_ops[m].request.type = "Get"
           /\ idata_ops[m].rpc_states = [h \in DOMAIN idata_ops[m].rpc_states |-> Sent]
           /\ last.sender \notin DOMAIN idata_ops[m].rpc_states
    /\ DOMAIN idata_ops # {}

\* C35: a holder is recorded in metadata(addr).holders by a PUT response only when
\* that holder answered Ok: a targeted holder that answered the PUT with an error is
\* not added to the persisted holders set.
C35_ErrorAnswerNotRecorded ==
    [][(IsAnswerTo(last', "Mutation", "Put") /\ last'.answer # Ok)
           => LET address == idata_ops[last'.message_id].request.address
              IN  HoldersOf(metadata', address) = HoldersOf(metadata, address)]_vars

\* C36: the outcome recorded for a holder is fixed by its first response: a second
\* response from the same holder for the same live op does not change its rpc_state,
\* so an Actioned(Some(error)) is never replaced by Actioned(None) and the error
\* reported when a DELETE concludes is not erased by a duplicate response.
C36_FirstResponseFixesOutcome ==
    [][(/\ last'.ev = "Response"
        /\ last'.message_id \in DOMAIN idata_ops
        /\ last'.message_id \in DOMAIN idata_ops'
        /\ last'.sender \in DOMAIN idata_ops[last'.message_id].rpc_states
        /\ idata_ops[last'.message_id].rpc_states[last'.sender].tag = "Actioned")
           => idata_ops'[last'.message_id].rpc_states[last'.sender] =
                  idata_ops[last'.message_id].rpc_states[last'.sender]]_vars

\* C37: every op inserted in the ledger has at least one target holder (rpc_states is
\* non-empty), so no op is already concluded when it is created; this includes a PUT
\* admitted when holder selection finds no adult and no elder.
C37_EveryOpHasATarget ==
    [][\A m \in DOMAIN idata_ops' \ DOMAIN idata_ops :
           /\ DOMAIN idata_ops'[m].rpc_states # {}
           /\ ~concluded(idata_ops'[m])]_vars

\* C38: chunk metadata survives role changes: a metadata record present before a
\* Connected or Promoted event is still present with the same holders and owner
\* after the event has been handled.
C38_MetadataSurvivesRoleChange ==
    [][last'.ev \in {"Connected", "Promoted"}
           => \A k \in DOMAIN metadata :
                  /\ k \in DOMAIN metadata'
                  /\ metadata'[k] = metadata[k]]_vars

\* C39: after MemberLeft(name) has been handled, name does not reappear in the
\* holders of any metadata record through a response to an operation that was
\* admitted before the departure (for example a PUT response from name delivered
\* after MemberLeft): a response whose sender has left the section and has not
\* joined again adds the sender to the holders of no record.
C39_DepartedHolderStaysOut ==
    [][(last'.ev = "Response" /\ last'.sender \notin adults \cup elders)
           => \A a \in Addrs :
                  last'.sender \in HoldersOf(metadata', a)
                      => last'.sender \in HoldersOf(metadata, a)]_vars

----------------------------------------------------------------------------
(* Two live operations: PUTs of one new Unpublished chunk by a client and by an
   app, under either of two message-ids, and the answers of the holders. *)

OwnerMsgIds == 1..MaxOwnerMsgId
OwnerAddrs == {UnpubAddr(n) : n \in ChunkNames}
OwnerSubRequests == [message_id : OwnerMsgIds, holder : Nodes, request : {"Put"}]

OwnerNext ==
    \/ Dispatch
    \/ \E ok \in BOOLEAN : Connected(ok)
    \/ \E requester \in ClientOrApp, data \in OwnerAddrs, message_id \in OwnerMsgIds :
           PutIData(requester, data, message_id)
    \/ \E sub \in OwnerSubRequests, result \in HolderResults : HolderAnswer(sub, result)

OwnerSpec == Init /\ [][OwnerNext]_vars

\* C34: once a metadata record has an owner, the owner does not change for as long as
\* the record exists, in any interleaving of admissions and responses; in particular
\* two PUTs of the same new Unpublished address by requesters with different keys,
\* both admitted before any holder answered, do not both obtain Mutation(Ok(())) and
\* do not replace each other's owner.
C34_OwnerNeverChanges ==
    [][/\ \A k \in DOMAIN metadata \cap DOMAIN metadata' :
              metadata[k].owner # None => metadata'[k].owner = metadata[k].owner
       /\ \A a \in last'.out :
              (/\ last'.ev = "Response"
               /\ a.action = "RespondToClientHandlers"
               /\ a.response = Mutation(Ok)
               /\ last'.message_id \in DOMAIN idata_ops
               /\ idata_ops[last'.message_id].request.type = "Put"
               /\ idata_ops[last'.message_id].request.address.kind = "Unpublished")
                  => LET key == to_db_key(idata_ops[last'.message_id].request.address)
                     IN  key \in DOMAIN metadata
                             => metadata[key].owner \in {None, own_key(a.requester)}]_vars

----------------------------------------------------------------------------
(* The operator command: the loop of Vault::run selects among the events and
   Command::Shutdown. *)

\* As Shutdown, with the command taken off the channel and ignored, as Vault::poll
\* does.
Shutdown_ignored ==
    /\ ~panicked /\ last.ev = "idle" /\ running
    /\ last' = Event("Shutdown", NoId, NoAddr, 0, 0, None)
    /\ UNCHANGED <<state, idata_ops, metadata, adults, elders, panicked, resp_count,
                   state_file, accumulator, proofs, running, pumped>>

\* Command::Shutdown => break.
Shutdown ==
    /\ ~panicked /\ last.ev = "idle" /\ running
    /\ running' = FALSE
    /\ last' = Event("Shutdown", NoId, NoAddr, 0, 0, None)
    /\ UNCHANGED <<state, idata_ops, metadata, adults, elders, panicked, resp_count,
                   state_file, accumulator, proofs, pumped>>

RunNext ==
    \/ running /\ Next
    \/ Shutdown

RunSpec == Init /\ [][RunNext]_vars

\* C33: a Shutdown command received by the event loop (run) ends the loop: the event
\* in flight is completed, no event queued after the command is processed, and the
\* ledger and the metadata store are left as they were, with no response emitted for
\* live ops.
C33_ShutdownEndsLoop ==
    [][/\ last'.ev = "Shutdown"
             => /\ last.ev = "idle"
                /\ idata_ops' = idata_ops
                /\ metadata' = metadata
                /\ resp_count' = resp_count
                /\ last'.out = NoAction
       /\ last.ev # "Shutdown"]_vars

\* The loop has been left on a Shutdown while a GET op was waiting for its holders
\* and the store held a record: both are as they were and nothing more happens.
C33_Witness ==
    /\ last.ev = "Shutdown"
    /\ ~running
    /\ DOMAIN metadata # {}
    /\ \E m \in DOMAIN idata_ops :
           /\ idata_ops[m].request.type = "Get"
           /\ StillSent(idata_ops[m]) # {}

----------------------------------------------------------------------------
(* Any content of MessageReceived: the routed messages, and with them bytes that do
   not deserialize, a client's request for another data type and a response of
   another variant. *)

WireRpcs ==
    RoutedRpcs
    \cup {RpcUndecodable}
    \cup {RpcRequest([type |-> "LoginPacket", address |-> NoAddr], requester, message_id,
                     proof) :
              requester \in RoutedRequesters, message_id \in MsgIds,
              proof \in ProofShares \cup {NoShare}}
    \cup {RpcResponse([type |-> "GetLoginPacket", result |-> result], message_id) :
              result \in HolderResults, message_id \in MsgIds}

WireNext ==
    \/ Dispatch
    \/ \E ok \in BOOLEAN : Connected(ok)
    \/ \E ok \in BOOLEAN : Promoted(ok)
    \/ \E src \in Nodes, rpc \in WireRpcs : MessageReceived(src, rpc)

WireSpec == Init /\ [][WireNext]_vars

\* C40: no inbound routing message stops the node: for every byte content of
\* MessageReceived, whether it fails to deserialize or deserializes to any Rpc (a
\* client request that is not an IData request, a response that is neither Mutation
\* nor GetIData), the handler returns with the message handled or dropped and the
\* node keeps processing later events.
C40_NoMessageStopsTheNode ==
    [][last'.ev = "MessageReceived" => ~panicked']_vars

----------------------------------------------------------------------------
(* vault.rs: the pump. step_routing and step_client give every action an event
   handler returns to handle_action and go on with what handle_action returns;
   MemberLeft gives the copy actions to handle_action itself. The vault is an
   Adult that routing counts among the adults of the section, so that it is
   among the holders of the chunks it coordinates. *)

\* The rpc of a SendToPeers action. Its request is the request of the op the data
\* handler has put into the ledger under the message-id; proof is the share the
\* rpc carries (Rpc::Request::proof, which accumulate_rpc reads).
LocalRpc(vault, action, proof) ==
    RpcRequest(vault.data_handler.idata_ops[action.message_id].request,
               action.requester, action.message_id, proof)

\* The chunk holder of this node, asked for a chunk by a data handler: it answers
\* the data handlers of the section with the chunk or with an error.
get_idata(requester, message_id, result) ==
    Some(RespondToOurDataHandlers(OurName, requester, GetIData(result), message_id, None))

\* The data handler has taken the rpc: the GET of a node is the chunk holder's to
\* answer.
AnsweredByHolder(routed, rpc, result) ==
    IF routed.delivered /\ rpc.type = "Get" /\ rpc.requester.kind = "Node"
    THEN [routed EXCEPT !.action = get_idata(rpc.requester, rpc.message_id, result)]
    ELSE routed

\* accumulate_rpc on an rpc of this node to itself as a holder.
accumulate_rpc_as_holder(vault, src, rpc, result) ==
    AnsweredByHolder(accumulate_rpc(vault, src, rpc), rpc, result)

\* Vault::handle_action, for the actions of the data handler. SendToPeers: the
\* message to this node is accumulated locally and what that returns is the next
\* action: the messages to the others are sent (always None).
\* RespondToOurDataHandlers: respond_to_data_handlers sends and returns None.
\* RespondToClientHandlers: self_is_handler_for is true and client_handler_mut()?
\* is None in an Adult.
handle_action(vault, action, proof, result) ==
    IF action.action = "SendToPeers" /\ OurName \in action.targets
    THEN accumulate_rpc_as_holder(vault, OurName, LocalRpc(vault, action, proof), result)
    ELSE NotRouted(vault)

\* The state of the pump: the vault, the actions given to handle_action so far and
\* the follow-ups left aside.
PumpState(vault, panic, handled, dropped) ==
    [vault |-> vault, panic |-> panic, handled |-> handled, dropped |-> dropped]

\* Some(action): the action.
Unwrap(maybe_action) == CHOOSE a \in maybe_action : TRUE

RECURSIVE step(_, _, _, _, _)

\* maybe_action = self.handle_action(action): the loop goes on with what
\* handle_action has returned.
step_on(next, proof, result, handled) ==
    IF next.panic
    THEN PumpState(next.vault, TRUE, handled, {})
    ELSE step(next.vault, next.action, proof, result, handled)

\* while let Some(action) = maybe_action { maybe_action = self.handle_action(action); }
step(vault, maybe_action, proof, result, handled) ==
    IF maybe_action = NoAction
    THEN PumpState(vault, FALSE, handled, {})
    ELSE step_on(handle_action(vault, Unwrap(maybe_action), proof, result), proof, result,
                 Append(handled, Unwrap(maybe_action)))

\* let _ = ...: the follow-up is left aside.
Discard(follow_up, rest) == [rest EXCEPT !.dropped = follow_up \cup @]

RECURSIVE handle_copy_actions(_, _, _, _, _)

\* let _ = self.handle_action(action): the loop goes on with the next copy action.
handle_copy_actions_on(next, copy_actions, proof, result, handled) ==
    IF next.panic
    THEN PumpState(next.vault, TRUE, handled, {})
    ELSE Discard(next.action,
                 handle_copy_actions(next.vault, copy_actions, proof, result, handled))

\* for action in copy_actions { let _ = self.handle_action(action); }
handle_copy_actions(vault, copy_actions, proof, result, handled) ==
    IF copy_actions = {}
    THEN PumpState(vault, FALSE, handled, {})
    ELSE handle_copy_actions_on(handle_action(vault, Unwrap(copy_actions), proof, result),
                                copy_actions \ {Unwrap(copy_actions)}, proof, result,
                                Append(handled, Unwrap(copy_actions)))

\* The keys that have yielded their proof while the event was processed.
Accumulated(before, after) ==
    [k \in Keys |-> IF k \in after.accumulated \ before.accumulated
                    THEN Min(proofs[k] + 1, 2)
                    ELSE proofs[k]]

\* What the pump leaves of an event: the vault, the ledger and the store.
Pumped(done, actions, event, is_response) ==
    /\ accumulator' = done.vault.accumulator
    /\ proofs' = Accumulated(accumulator, done.vault.accumulator)
    /\ pumped' = [handled |-> done.handled, dropped |-> done.dropped]
    /\ Handled(done.vault.data_handler, actions, done.panic, event, is_response)

\* Vault::step_routing, on what handle_routing_event has returned.
step_routing(routed, event, is_response, proof, result) ==
    Pumped(IF routed.panic
           THEN PumpState(routed.vault, TRUE, <<>>, {})
           ELSE step(routed.vault, routed.action, proof, result, <<>>),
           routed.action, event, is_response)

\* step_routing(RoutingEvent::MessageReceived).
step_routing_MessageReceived(src, rpc, proof, result) ==
    /\ ~panicked /\ last.ev = "idle"
    /\ LET r == handle_routing_message(Vault, src, rpc)
       IN  step_routing(r, RoutedEvent(src, rpc, r), rpc.rpc = "Response", proof, result)
    /\ UNCHANGED <<state, adults, elders, state_file, running>>

\* The MemberLeft arm of handle_routing_event, on what trigger_chunk_duplication has
\* returned: the copy actions are handled and the arm returns None.
MemberLeftHandled(copied, name, proof, result) ==
    Pumped(handle_copy_actions(VaultState(state, copied.self, accumulator),
                               copied.actions, proof, result, <<>>),
           copied.actions, Event("MemberLeft", NoId, NoAddr, 0, name, None), FALSE)

\* step_routing(RoutingEvent::MemberLeft).
step_routing_MemberLeft(name, ids, proof, result) ==
    /\ ~panicked /\ last.ev = "idle"
    /\ name \in (adults \cup elders) \ {OurName}
    /\ adults' = adults \ {name}
    /\ elders' = elders \ {name}
    /\ MemberLeftHandled(IF HasDataHandler
                         THEN trigger_chunk_duplication(Self, name, ids)
                         ELSE [self |-> Self, actions |-> {}],
                         name, proof, result)
    /\ UNCHANGED <<state, state_file, running>>

\* The share in the rpc this node sends itself (none, or a valid one) and the
\* answer of its chunk holder.
PumpProofs == {NoShare} \cup {p \in ProofShares : p.valid}
PumpResults == {Ok, "NoSuchData"}

\* The routed messages of this specification: the shares of a client's PUT and GET
\* of one Published chunk, and the holders' responses to a PUT.
PumpRpcs ==
    {RpcRequest(request, requester, message_id, proof) :
         request \in {PutRequest(a) : a \in RoutedAddrs}
                         \cup {GetRequest(a) : a \in RoutedAddrs},
         requester \in RoutedRequesters \cap ClientOrApp, message_id \in MsgIds,
         proof \in PumpProofs \ {NoShare}}
    \cup {RpcResponse(Mutation(result), message_id) :
              result \in HolderResults, message_id \in MsgIds}

\* The senders of routing messages: the nodes of the section, this one included
\* (respond_to_data_handlers sends to the section of this node).
PumpSenders == Nodes \cup {OurName}

PumpInit ==
    /\ state = "Infant"
    /\ idata_ops = EmptyMap
    /\ metadata = EmptyMap
    /\ adults = AdultNames \cup {OurName}
    /\ elders = ElderNames
    /\ panicked = FALSE
    /\ last = Event("idle", NoId, NoAddr, 0, 0, None)
    /\ resp_count = [m \in MsgIds |-> 0]
    /\ state_file = dump_state("Infant")
    /\ accumulator = SignatureAccumulator_new
    /\ proofs = [k \in Keys |-> 0]
    /\ running = TRUE
    /\ pumped = NotPumped

PumpNext ==
    \/ Dispatch
    \/ \E ok \in BOOLEAN : Connected(ok)
    \/ \E src \in PumpSenders, rpc \in PumpRpcs, proof \in PumpProofs,
          result \in PumpResults :
           step_routing_MessageReceived(src, rpc, proof, result)
    \/ \E name \in Nodes, ids \in [Addrs -> MsgIds], proof \in PumpProofs,
          result \in PumpResults :
           step_routing_MemberLeft(name, ids, proof, result)

PumpSpec == PumpInit /\ [][PumpNext]_vars

\* C31: while an event is processed, every follow-up action that handle_action
\* returns is itself given to handle_action, until it returns None: for routing
\* events, for client events, and for the follow-ups of the copy actions that are
\* dispatched when a MemberLeft is handled. No follow-up is left aside.
C31_FollowUpsAreHandled ==
    pumped.dropped = {}

====
